---- MODULE Spec2Model ----
(***************************************************************************)
(* A model of the hand-gesture input backend: the gesture detectors        *)
(* (pinch, scroll), the cursor mapper, the two Bluetooth HID backends, the *)
(* websocket session relay and the event dispatcher with its local mouse   *)
(* backend.                                                                *)
(*                                                                         *)
(* Units.  Time is counted in ticks of 50 ms (0.05 s = 1, 0.25 s = 5,      *)
(* 1.0 s = 20).  Pinch distances are in thousandths of the normalised      *)
(* landmark space.  Scroll landmarks are in units of 0.0005.               *)
(* None (Python's None) is the integer -1; every time and every            *)
(* coordinate of the model is >= 0.                                        *)
(***************************************************************************)
EXTENDS Integers, Sequences, FiniteSets, TLC

None == -1

Abs(x) == IF x < 0 THEN -x ELSE x

Max2(a, b) == IF a > b THEN a ELSE b

Min2(a, b) == IF a < b THEN a ELSE b

RECURSIVE CountOf(_, _)
CountOf(s, e) ==
    IF s = <<>> THEN 0
    ELSE (IF Head(s) = e THEN 1 ELSE 0) + CountOf(Tail(s), e)

VARIABLES
    \* ---- PinchDetector (gestures/pinch.py) ----
    pinch_start_t,      \* self._pinch_start_t (None or a clock reading)
    dragging,           \* self._dragging
    pNow,               \* the last value time.time() returned to update
    pD,                 \* the thumb-index distance of the last update
    pEvents,            \* the list the last update returned
    pCycle,             \* events emitted since the detector was last idle
    pT0,                \* observer: when the distance first dropped below pinch_threshold
    pLate,              \* observer: a frame below pinch_threshold at a time >= pT0 + hold_delay
    pClosed,            \* observer: the last update saw the press released
    \* ---- ScrollDetector (gestures/scroll.py) ----
    last_y_position,    \* self._last_y_position, doubled (index y + middle y), or None
    is_scrolling,       \* self._is_scrolling
    sFrame,             \* the landmarks of the last update
    sEvents,            \* the list the last update returned
    sCalled,            \* update has been called at least once
    sPrevPose,          \* observer: the scroll pose held on the update before the last
    sRef,               \* observer: the doubled mean y at pose entry or at the last SCROLL due
    \* ---- CursorMapper (gestures/cursor.py) ----
    cCfg,               \* gain, smoothing (an / AlphaDen) and offset_px
    cursor_set,         \* self._sx is not None
    sx,                 \* self._sx, times CursorScale
    sy,                 \* self._sy, times CursorScale
    cLm,                \* the fingertip (x, y) of the last update, in grid units
    cOut,               \* the pixel the last update returned
    cCalls,             \* number of updates so far
    cPinned,            \* every update is given the same fingertip
    cCap,               \* the run makes at most this many updates
    cHist,              \* pinned runs: the smoothed position after each update
    \* ---- BtMouseController (input/bt_mouse_controller.py) ----
    bt_connected,       \* self.connected
    bt_initialized,     \* self._initialized
    bt_last_x,          \* self._last_x
    bt_last_y,          \* self._last_y
    bt_buttons,         \* self._buttons
    btLink,             \* the host's interrupt channel accepts a send
    btSent,             \* mouse reports <<buttons, dx, dy, wheel>> the last call sent
    btOp,               \* the last call
    btFrom,             \* observer: the arguments of the move_to before the last call
    btArg,              \* the arguments of the last move_to
    btWasInit,          \* observer: a move_to had been made before the last call
    btWasUp,            \* observer: the last call found the backend connected and the link up
    \* ---- HIDController (input/hid_controller.py) ----
    hid_connected,      \* self.connected
    hid_last_x,         \* self.last_x
    hid_last_y,         \* self.last_y
    hidLink,            \* the host's interrupt channel accepts a send
    hidListening,       \* the _listen thread has not accepted a host yet
    hidSent,            \* mouse reports <<buttons, dx, dy>> the last move_to sent
    hidFrom,            \* observer: last_x, last_y before the last move_to
    hidMoved,           \* observer: the last call was a move_to
    hidWasUp,           \* observer: the last move_to found the backend connected and the link up
    \* ---- relay (server/relay.py) ----
    SESSIONS,           \* session id -> set of connections
    session_id,         \* handler(ws): the local session_id of each connection's handler
    pc,                 \* handler(ws): where each connection's handler is suspended
    sockOpen,           \* the connection is open: a send to it succeeds
    inbox,              \* messages a client sent that its handler has not received yet
    out,                \* frames the relay sent to each connection
    iter,               \* broadcast: the set iterator and dead list of a suspended broadcast
    crashed,            \* the handler ended in an exception other than ConnectionClosed
    sentBy,             \* number of messages each client sent so far
    mInfo,              \* observer: per client message, its sender, kind and handling
    \* ---- EventLoop (input/event_loop.py) and MouseController ----
    ev_q,               \* self.q: the queued items, oldest first
    ev_stop,            \* self._stop is set
    ev_pc,              \* where the consumer thread (_run) is
    ev_cur,             \* the event _process is working on
    mouse_left,         \* MouseController: the left button is held down
    mouse_pos,          \* MouseController: the pointer position
    evEmitted,          \* observer: number of emit calls so far
    evTaken,            \* observer: the events q.get() returned, in order
    evLog,              \* observer: begin and end of every backend call, in order
    evStopAt,           \* observer: number of emit calls made before stop(), or None
    evHeldAtStop,       \* observer: stop() found a left_down without a later left_up
    \* ---- construction of PinchDetector and CursorMapper with any parameters ----
    kPinch,             \* a PinchDetector: built, its two thresholds, its fields
    kCursor,            \* a CursorMapper: built, its ROI
    kNow,               \* the clock of the updates of these two objects
    kUses,              \* number of updates made on them
    kResult,            \* how the last update ended
    \* ---- FrameDetector (gestures/frame.py) ----
    pose_start_time,    \* self._pose_start_time, or None
    last_trigger_time,  \* self._last_trigger_time
    fNow,               \* the last value time.time() returned to update
    fResults,           \* the hands of the last update: label and landmarks of each
    fEvents,            \* the list the last update returned
    fPrevShot,          \* observer: when SCREENSHOT was returned before the last update, or None
    fCountFrom,         \* observer: the first update of the unbroken two-hand pose outside a cooldown
    \* ---- SwipeDetector (gestures/swipe.py) ----
    swipe_start_position,   \* self._start_position: <<x, y>>, or <<>> for None
    swipe_last_position,    \* self._last_position: <<x, y>>, or <<>> for None
    swipe_start_time,       \* self._gesture_start_time, or None
    wNow,               \* the last value time.time() returned to update
    wFrame,             \* the hand of the last update, <<>> when it was None
    wResult,            \* what the last update returned, "None" for None
    wEmitted,           \* observer: results returned since the last frame without the pose
    wEntryPos,          \* observer: the middle fingertip on the frame the pose was entered, or <<>>
    wEntryTime,         \* observer: the time of that frame, or None
    \* ---- CopyPasteGestureHandler (gestures/copy_paste.py) ----
    cp_active_gesture,      \* self._active_gesture: "copy", "paste" or "None"
    cp_gesture_start_time,  \* self._gesture_start_time, or None
    cpNow,              \* the last value time.time() returned
    cpGesture,          \* what _classify_gesture returned on the last call
    cpHotkey,           \* the pyautogui.hotkey call the last process_landmarks made itself
    cpSince,            \* observer: the first frame of the unbroken run of the last shape, or None
    \* ---- main (main.py) ----
    main_pc,            \* where main() is: "setup", "loop", "NameError", "ended"
    mFrames,            \* frames read so far
    mHand,              \* the last frame showed a hand
    mMoves,             \* MOVE events the last frame emitted
    mSmoothed,          \* observer: the mapper's smoothed position before the last frame
    \* ---- PalmArrowDetector (gestures/palm_arrow.py) ----
    left_palm_up_start,     \* self._left_palm_up_start, or None
    right_palm_up_start,    \* self._right_palm_up_start, or None
    last_left_trigger,      \* self._last_left_trigger
    last_right_trigger,     \* self._last_right_trigger
    aNow,               \* the last value time.time() returned to update
    aResults,           \* the hands of the last update
    aEvent,             \* what the last update returned, "None" for None
    aTriggered,         \* the events whose trigger branch the last update executed
    aLeftSince,         \* observer: first frame of the unbroken run with the left hand in the pose
    aRightSince,        \* observer: the same for the right hand
    aPrevLeft,          \* observer: when CONTROL_LEFT was returned before the last update, or None
    aPrevRight,         \* observer: the same for CONTROL_RIGHT
    \* ---- StopResumeDetector (gestures/stop_resume.py) ----
    stop_gesture_start,     \* self._stop_gesture_start, or None
    left_hand_positions,    \* self._left_hand_positions: the times of its samples
    right_hand_positions,   \* self._right_hand_positions: the times of its samples
    last_resume_time,       \* self._last_resume_time
    tNow,               \* the last value time.time() returned to update
    tFrame,             \* the hands of the last update and the geometry of their index tips
    tEvent,             \* what the last update returned, "None" for None
    tSince,             \* observer: first frame of the unbroken run of stop-pose frames
    tFirst,             \* observer: the last frame is the first to complete stop_hold_time
    tPrevResume,        \* observer: when RESUME was returned before the last update, or None
    \* ---- BtMouseController, its two threads (input/bt_mouse_controller.py) ----
    thr_connected,      \* self.connected
    thr_ccontrol,       \* self.ccontrol: the connection whose control socket it is, 0 for None
    thr_cinterrupt,     \* self.cinterrupt: the connection whose interrupt socket it is, 0 for None
    conn_pc,            \* where the connection thread is in _connection_loop
    conn_local,         \* ctrl, intr of _connection_loop: the connection accepted, 0 for None
    send_pc,            \* where the sender thread is in _send_mouse
    accepted,           \* the number of connections accept_connection has returned
    ctrlClosed,         \* the connections whose control socket has been closed
    intrClosed,         \* the connections whose interrupt socket has been closed
    hostGone            \* the connections whose host went away

pinchVars == <<pinch_start_t, dragging, pNow, pD, pEvents, pCycle, pT0, pLate, pClosed>>

scrollVars == <<last_y_position, is_scrolling, sFrame, sEvents, sCalled, sPrevPose, sRef>>

cursorVars == <<cCfg, cursor_set, sx, sy, cLm, cOut, cCalls, cPinned, cCap, cHist>>

btVars == <<bt_connected, bt_initialized, bt_last_x, bt_last_y, bt_buttons, btLink,
            btSent, btOp, btFrom, btArg, btWasInit, btWasUp>>

hidVars == <<hid_connected, hid_last_x, hid_last_y, hidLink, hidListening, hidSent,
             hidFrom, hidMoved, hidWasUp>>

relayVars == <<SESSIONS, session_id, pc, sockOpen, inbox, out, iter, crashed, sentBy, mInfo>>

dispatchVars == <<ev_q, ev_stop, ev_pc, ev_cur, mouse_left, mouse_pos,
                  evEmitted, evTaken, evLog, evStopAt, evHeldAtStop>>

constructVars == <<kPinch, kCursor, kNow, kUses, kResult>>

frameVars == <<pose_start_time, last_trigger_time, fNow, fResults, fEvents,
               fPrevShot, fCountFrom>>

swipeVars == <<swipe_start_position, swipe_last_position, swipe_start_time,
               wNow, wFrame, wResult, wEmitted, wEntryPos, wEntryTime>>

copyPasteVars == <<cp_active_gesture, cp_gesture_start_time, cpNow, cpGesture, cpHotkey, cpSince>>

mainVars == <<main_pc, mFrames, mHand, mMoves, mSmoothed>>

palmVars == <<left_palm_up_start, right_palm_up_start, last_left_trigger,
              last_right_trigger, aNow, aResults, aEvent, aTriggered, aLeftSince,
              aRightSince, aPrevLeft, aPrevRight>>

stopVars == <<stop_gesture_start, left_hand_positions, right_hand_positions,
              last_resume_time, tNow, tFrame, tEvent, tSince, tFirst, tPrevResume>>

raceVars == <<thr_connected, thr_ccontrol, thr_cinterrupt, conn_pc, conn_local, send_pc,
              accepted, ctrlClosed, intrClosed, hostGone>>

vars == <<pinchVars, scrollVars, cursorVars, btVars, hidVars, relayVars, dispatchVars, constructVars, frameVars, swipeVars, copyPasteVars, mainVars, palmVars, stopVars, raceVars>>

(***************************************************************************)
(* PinchDetector                                                           *)
(***************************************************************************)
MaxTime == 12           \* the clock stops advancing here
MaxStep == 3            \* largest clock advance between two frames

PinchThreshold == 30    \* pinch_threshold = 0.030
ReleaseThreshold == 40  \* release_threshold = 0.040
HoldDelay == 5          \* hold_delay_s = 0.25
ClickDebounce == 1      \* the literal 0.05 of the CLICK test

\* Distances on both sides of, and on, the two thresholds.
PinchDists == {20, 30, 35, 40, 50}

PinchInit ==
    /\ pinch_start_t = None
    /\ dragging = FALSE
    /\ pNow = 0
    /\ pD = 50
    /\ pEvents = <<>>
    /\ pCycle = <<>>
    /\ pT0 = None
    /\ pLate = FALSE
    /\ pClosed = FALSE

\* A release that reports PINCH_END for every press, dragging or not.
PinchStep_EndWithoutDrag(start, drag, d, now) ==
    IF d < PinchThreshold THEN
        LET s1 == IF start = None THEN now ELSE start
            fire == (~drag) /\ (now - s1) >= HoldDelay
        IN  [start |-> s1, drag |-> (drag \/ fire),
             events |-> IF fire THEN <<"PINCH_START">> ELSE <<>>]
    ELSE IF d > ReleaseThreshold THEN
        [start |-> None, drag |-> FALSE,
         events |-> IF start # None THEN <<"PINCH_END">> ELSE <<>>]
    ELSE [start |-> start, drag |-> drag, events |-> <<>>]

\* A release whose CLICK test is >= 0.05 instead of > 0.05.
PinchStep_ClickAtDebounce(start, drag, d, now) ==
    IF d < PinchThreshold THEN
        LET s1 == IF start = None THEN now ELSE start
            fire == (~drag) /\ (now - s1) >= HoldDelay
        IN  [start |-> s1, drag |-> (drag \/ fire),
             events |-> IF fire THEN <<"PINCH_START">> ELSE <<>>]
    ELSE IF d > ReleaseThreshold THEN
        [start |-> None, drag |-> FALSE,
         events |-> IF start # None
                    THEN (IF drag THEN <<"PINCH_END">>
                          ELSE IF (now - start) >= ClickDebounce THEN <<"CLICK">>
                          ELSE <<>>)
                    ELSE <<>>]
    ELSE [start |-> start, drag |-> drag, events |-> <<>>]

\* An update whose hold test is > hold_delay instead of >= hold_delay.
PinchStep_HoldAfterDelay(start, drag, d, now) ==
    IF d < PinchThreshold THEN
        LET s1 == IF start = None THEN now ELSE start
            fire == (~drag) /\ (now - s1) > HoldDelay
        IN  [start |-> s1, drag |-> (drag \/ fire),
             events |-> IF fire THEN <<"PINCH_START">> ELSE <<>>]
    ELSE IF d > ReleaseThreshold THEN
        [start |-> None, drag |-> FALSE,
         events |-> IF start # None
                    THEN (IF drag THEN <<"PINCH_END">>
                          ELSE IF (now - start) > ClickDebounce THEN <<"CLICK">>
                          ELSE <<>>)
                    ELSE <<>>]
    ELSE [start |-> start, drag |-> drag, events |-> <<>>]

\* An update whose pinch test is <= pinch_threshold instead of < pinch_threshold.
PinchStep_PinchAtThreshold(start, drag, d, now) ==
    IF d <= PinchThreshold THEN
        LET s1 == IF start = None THEN now ELSE start
            fire == (~drag) /\ (now - s1) >= HoldDelay
        IN  [start |-> s1, drag |-> (drag \/ fire),
             events |-> IF fire THEN <<"PINCH_START">> ELSE <<>>]
    ELSE IF d > ReleaseThreshold THEN
        [start |-> None, drag |-> FALSE,
         events |-> IF start # None
                    THEN (IF drag THEN <<"PINCH_END">>
                          ELSE IF (now - start) > ClickDebounce THEN <<"CLICK">>
                          ELSE <<>>)
                    ELSE <<>>]
    ELSE [start |-> start, drag |-> drag, events |-> <<>>]

\* PinchDetector.update on state (start, drag), distance d and clock reading now:
\* the new state and the returned list.
PinchStep(start, drag, d, now) ==
    IF d < PinchThreshold THEN
        LET s1 == IF start = None THEN now ELSE start
            fire == (~drag) /\ (now - s1) >= HoldDelay
        IN  [start |-> s1, drag |-> (drag \/ fire),
             events |-> IF fire THEN <<"PINCH_START">> ELSE <<>>]
    ELSE IF d > ReleaseThreshold THEN
        [start |-> None, drag |-> FALSE,
         events |-> IF start # None
                    THEN (IF drag THEN <<"PINCH_END">>
                          ELSE IF (now - start) > ClickDebounce THEN <<"CLICK">>
                          ELSE <<>>)
                    ELSE <<>>]
    ELSE [start |-> start, drag |-> drag, events |-> <<>>]

PinchIdle == pinch_start_t = None /\ ~dragging

\* One call of update: the clock is read (it never goes back), the distance is
\* any of PinchDists.  The observers pT0, pLate and pClosed are computed from
\* the inputs alone, never from the detector's fields.
PinchUpdate ==
    \E step \in 0..MaxStep, d \in PinchDists :
        LET now == pNow + step
            r == PinchStep(pinch_start_t, dragging, d, now)
            baseT0 == IF pClosed THEN None ELSE pT0
            baseLate == IF pClosed THEN FALSE ELSE pLate
            t0 == IF d < PinchThreshold /\ baseT0 = None THEN now ELSE baseT0
        IN  /\ now <= MaxTime
            /\ pNow' = now
            /\ pD' = d
            /\ pinch_start_t' = r.start
            /\ dragging' = r.drag
            /\ pEvents' = r.events
            /\ pCycle' = (IF PinchIdle THEN <<>> ELSE pCycle) \o r.events
            /\ pT0' = t0
            /\ pLate' = (baseLate \/ (t0 # None /\ d < PinchThreshold /\ now >= t0 + HoldDelay))
            /\ pClosed' = (d > ReleaseThreshold /\ t0 # None)

PinchNext == PinchUpdate

(***************************************************************************)
(* ScrollDetector                                                          *)
(* A frame is the y of the tips and PIP joints of index, middle, ring and  *)
(* pinky, and sep, the squared x-z separation of the index and middle      *)
(* tips.  The mean y of the two tips is kept doubled (it + mt), so deltas  *)
(* and scroll amounts are in units of 0.00025.                             *)
(***************************************************************************)
FingerRaiseThreshold == 30          \* finger_raise_threshold = 0.015
FingerDistanceThreshold == 160      \* finger_distance_threshold = 0.08
MinScrollDelta == 1                 \* min_scroll_delta = 0.0005
ScrollSensitivity == 100            \* scroll_sensitivity = 100.0
ScrollNoiseFloor == 1200            \* the literal 0.3, in units of 0.00025
PipY == 400                         \* every PIP joint sits at y = 0.2

ScrollFrames ==
    [it : {370, 369, 364, 356}, ip : {PipY},
     mt : {370, 369, 355},      mp : {PipY},
     rt : {399, 400, 401},      rp : {PipY},
     kt : {399, 400},           kp : {PipY},
     sep : {0, 25599, 25600}]

NoFrame == [it |-> 0, ip |-> 0, mt |-> 0, mp |-> 0, rt |-> 0, rp |-> 0,
            kt |-> 0, kp |-> 0, sep |-> 0]

ScrollInit ==
    /\ last_y_position = None
    /\ is_scrolling = FALSE
    /\ sFrame = NoFrame
    /\ sEvents = <<>>
    /\ sCalled = FALSE
    /\ sPrevPose = FALSE
    /\ sRef = None

\* A raise test that accepts a finger raised by exactly the threshold.
IsFingerRaised_AtThreshold(tip, pip) == (pip - tip) >= FingerRaiseThreshold

\* ScrollDetector._is_finger_raised
IsFingerRaised(tip, pip) == (pip - tip) > FingerRaiseThreshold

\* ScrollDetector._fingers_together: sqrt(dx^2 + dy^2 + dz^2) < threshold,
\* compared on the squares (both sides are >= 0).
FingersTogether(f) ==
    f.sep + (f.it - f.mt) * (f.it - f.mt)
        < FingerDistanceThreshold * FingerDistanceThreshold

\* ScrollDetector._get_average_y, doubled.
AverageY2(f) == f.it + f.mt

\* The condition of the if of update: fingers_together and exactly_two_fingers.
ScrollActive(f) ==
    LET index_raised == IsFingerRaised(f.it, f.ip)
        middle_raised == IsFingerRaised(f.mt, f.mp)
        ring_not_extended == f.rt >= f.rp
        pinky_not_extended == f.kt >= f.kp
    IN  FingersTogether(f)
        /\ index_raised /\ middle_raised
        /\ ring_not_extended /\ pinky_not_extended

\* An update that keeps the reference y when the pose is lost.
ScrollStep_KeepReference(last, f) ==
    IF ScrollActive(f) THEN
        LET cur == AverageY2(f)
            delta == cur - last
            amount == (0 - delta) * ScrollSensitivity
            fire == last # None /\ Abs(delta) > 2 * MinScrollDelta
                    /\ Abs(amount) > ScrollNoiseFloor
        IN  [last |-> cur, scrolling |-> TRUE,
             events |-> IF fire THEN << <<"SCROLL", amount>> >> ELSE <<>>]
    ELSE [last |-> last, scrolling |-> FALSE, events |-> <<>>]

\* ScrollDetector.update on reference last and frame f: the new reference,
\* the new flag and the returned list.
ScrollStep(last, f) ==
    IF ScrollActive(f) THEN
        LET cur == AverageY2(f)
            delta == cur - last
            amount == (0 - delta) * ScrollSensitivity
            fire == last # None /\ Abs(delta) > 2 * MinScrollDelta
                    /\ Abs(amount) > ScrollNoiseFloor
        IN  [last |-> cur, scrolling |-> TRUE,
             events |-> IF fire THEN << <<"SCROLL", amount>> >> ELSE <<>>]
    ELSE [last |-> None, scrolling |-> FALSE, events |-> <<>>]

\* The scroll pose as the specification words it: index and middle raised by
\* more than the raise threshold, their tips closer than the pair threshold,
\* ring and pinky tips at or below their PIP joints.
ScrollPoseHolds(f) ==
    /\ f.ip - f.it > FingerRaiseThreshold
    /\ f.mp - f.mt > FingerRaiseThreshold
    /\ f.sep + (f.it - f.mt) * (f.it - f.mt)
           < FingerDistanceThreshold * FingerDistanceThreshold
    /\ f.rt >= f.rp
    /\ f.kt >= f.kp

\* The SCROLL due on a frame in the pose whose doubled mean y is cur, measured
\* from the reference ref: none when the move is within min_scroll_delta or
\* the scaled move within 0.3.
ScrollDue(ref, cur) ==
    LET delta == cur - ref
        amount == (0 - delta) * ScrollSensitivity
    IN  IF Abs(delta) > 2 * MinScrollDelta /\ Abs(amount) > ScrollNoiseFloor
        THEN << <<"SCROLL", amount>> >> ELSE <<>>

\* One call of update on any frame.  The observer sRef follows the inputs
\* alone: unset outside the pose, the mean y at pose entry, moved only by a
\* frame on which a SCROLL is due.
ScrollUpdate ==
    \E f \in ScrollFrames :
        LET r == ScrollStep(last_y_position, f)
        IN  /\ sRef' = IF ~ScrollPoseHolds(f) THEN None
                       ELSE IF sRef = None THEN f.it + f.mt
                       ELSE IF ScrollDue(sRef, f.it + f.mt) # <<>> THEN f.it + f.mt
                       ELSE sRef
            /\ last_y_position' = r.last
            /\ is_scrolling' = r.scrolling
            /\ sEvents' = r.events
            /\ sFrame' = f
            /\ sCalled' = TRUE
            /\ sPrevPose' = (sCalled /\ ScrollPoseHolds(sFrame))

ScrollNext == ScrollUpdate

(***************************************************************************)
(* CursorMapper                                                            *)
(* Fingertip coordinates and the ROI are on an integer grid (the           *)
(* normalisation divides by the ROI span, so the grid unit cancels).       *)
(* Positions are exact rationals: every pixel position p is held as the    *)
(* integer p * CursorScale, and CursorScale is a multiple of both ROI      *)
(* spans and of AlphaDen^MaxConstCalls, so that each division below is     *)
(* exact for as many updates as a run makes.                               *)
(***************************************************************************)
MaxCalls == 3           \* updates in a run with free fingertips
MaxConstCalls == 6      \* updates in a run with a pinned fingertip
ScreenW == 8            \* screen_w
ScreenH == 6            \* screen_h
RoiXMin == 1            \* roi_x_min
RoiXMax == 5            \* roi_x_max
RoiYMin == 1            \* roi_y_min
RoiYMax == 4            \* roi_y_max
AlphaDen == 2           \* smoothing is an / AlphaDen

RECURSIVE Pow(_, _)
Pow(b, n) == IF n = 0 THEN 1 ELSE b * Pow(b, n - 1)

CursorScale == (RoiXMax - RoiXMin) * (RoiYMax - RoiYMin) * Pow(AlphaDen, MaxConstCalls)

\* Fingertips left of, inside and right of the ROI; above, inside and below it.
CursorXs == {0, 2, 3, 6}

CursorYs == {0, 2, 5}

\* smoothing in {1/2, 1}, gain in {1, 2, 3}, offsets around 0.
CursorConfigs == [an : {1, 2}, gain : {1, 2, 3}, offx : {0 - 1, 0, 1}, offy : {0, 1}]

\* main.py's mapper, on the model's grid: gain 2, smoothing 1/2, offset (1, 0).
MainCursorConfig == [an |-> 1, gain |-> 2, offx |-> 1, offy |-> 0]

CursorInit(cfgs, pinned, cap) ==
    /\ cCfg \in cfgs
    /\ cursor_set = FALSE
    /\ sx = 0
    /\ sy = 0
    /\ cLm = <<0, 0>>
    /\ cOut = <<0, 0>>
    /\ cCalls = 0
    /\ cPinned = pinned
    /\ cCap = cap
    /\ cHist = <<>>

\* _clamp
Clamp(v, lo, hi) == IF v < lo THEN lo ELSE IF v > hi THEN hi ELSE v

\* A conversion to a pixel that rounds to the nearest integer (halves up).
PyInt_Round(v) == (2 * v + CursorScale) \div (2 * CursorScale)

\* int() of a scaled position: truncation towards zero.
PyInt(v) == IF v >= 0 THEN v \div CursorScale ELSE 0 - ((0 - v) \div CursorScale)

\* update, on one axis: steps 1 to 5 of the method.  lm is the fingertip
\* coordinate, s the smoothed position (scaled), isset whether it is set.
CursorAxis(isset, s, lm, roiMin, roiMax, size, off, cfg) ==
    LET n == Clamp(((lm - roiMin) * CursorScale) \div (roiMax - roiMin), 0, CursorScale)
        t0 == n * size
        s0 == IF isset THEN s ELSE t0
        t1 == IF isset THEN s + (t0 - s) * cfg.gain ELSE t0
        t2 == t1 + off * CursorScale
        t3 == Clamp(t2, 0, (size - 1) * CursorScale)
    IN  ((AlphaDen - cfg.an) * s0 + cfg.an * t3) \div AlphaDen

\* One call of update with fingertip lm.
CursorUpdate ==
    \E x \in CursorXs, y \in CursorYs :
        LET nsx == CursorAxis(cursor_set, sx, x, RoiXMin, RoiXMax, ScreenW, cCfg.offx, cCfg)
            nsy == CursorAxis(cursor_set, sy, y, RoiYMin, RoiYMax, ScreenH, cCfg.offy, cCfg)
        IN  /\ cCalls < cCap
            /\ cPinned /\ cCalls > 0 => <<x, y>> = cLm
            /\ sx' = nsx
            /\ sy' = nsy
            /\ cursor_set' = TRUE
            /\ cLm' = <<x, y>>
            /\ cOut' = <<PyInt(nsx), PyInt(nsy)>>
            /\ cCalls' = cCalls + 1
            /\ cHist' = IF cPinned THEN Append(cHist, <<nsx, nsy>>) ELSE cHist
            /\ UNCHANGED <<cCfg, cPinned, cCap>>

CursorNext == CursorUpdate

(***************************************************************************)
(* The HID peripheral backends: BtMouseController and HIDController.       *)
(***************************************************************************)
HidDeltaMax == 127      \* the signed-byte limit of a report's dx, dy, wheel
HidStartX == 960        \* HIDController: last_x = width // 2, width = 1920
HidStartY == 540        \* HIDController: last_y = height // 2, height = 1080

\* Targets of move_to: deltas of 0, exactly 127, and beyond a byte.
BtXs == {0, 127, 300}

BtYs == {0, 200}

HidXs == {HidStartX, HidStartX + 127, HidStartX + 300}

HidYs == {HidStartY, HidStartY + 200}

BtInit ==
    /\ bt_connected = FALSE
    /\ bt_initialized = FALSE
    /\ bt_last_x = 0
    /\ bt_last_y = 0
    /\ bt_buttons = 0
    /\ btLink = FALSE
    /\ btSent = <<>>
    /\ btOp = "none"
    /\ btFrom = <<0, 0>>
    /\ btArg = <<0, 0>>
    /\ btWasInit = FALSE
    /\ btWasUp = FALSE

HidInit ==
    /\ hid_connected = FALSE
    /\ hid_last_x = HidStartX
    /\ hid_last_y = HidStartY
    /\ hidLink = FALSE
    /\ hidListening = TRUE
    /\ hidSent = <<>>
    /\ hidFrom = <<HidStartX, HidStartY>>
    /\ hidMoved = FALSE
    /\ hidWasUp = FALSE

\* max(-127, min(127, v))
ClampByte(v) == Max2(0 - HidDeltaMax, Min2(HidDeltaMax, v))

\* BtMouseController._send_mouse: nothing when not connected; otherwise one
\* report with clamped fields is sent, and a failed send marks the backend
\* disconnected.  The reports sent and the new connected flag.
BtSendMouse(conn, link, buttons, dx, dy, wheel) ==
    IF ~conn THEN [sent |-> <<>>, conn |-> FALSE]
    ELSE IF link
         THEN [sent |-> << <<buttons, ClampByte(dx), ClampByte(dy), ClampByte(wheel)>> >>,
               conn |-> TRUE]
         ELSE [sent |-> <<>>, conn |-> FALSE]

\* _connection_loop: a host connects and both channels are accepted.
BtAccept ==
    /\ ~bt_connected
    /\ bt_connected' = TRUE
    /\ btLink' = TRUE
    /\ btOp' = "accept"
    /\ btSent' = <<>>
    /\ UNCHANGED <<bt_initialized, bt_last_x, bt_last_y, bt_buttons, btFrom, btArg,
                   btWasInit, btWasUp>>

\* The host goes away: the next send on the interrupt channel raises.
BtLinkDrop ==
    /\ btLink
    /\ btLink' = FALSE
    /\ btOp' = "drop"
    /\ btSent' = <<>>
    /\ UNCHANGED <<bt_connected, bt_initialized, bt_last_x, bt_last_y, bt_buttons,
                   btFrom, btArg, btWasInit, btWasUp>>

\* BtMouseController.move_to
BtMoveTo ==
    \E x \in BtXs, y \in BtYs :
        LET dx == x - bt_last_x
            dy == y - bt_last_y
            r == IF bt_initialized /\ (dx # 0 \/ dy # 0)
                 THEN BtSendMouse(bt_connected, btLink, bt_buttons, dx, dy, 0)
                 ELSE [sent |-> <<>>, conn |-> bt_connected]
        IN  /\ bt_initialized' = TRUE
            /\ bt_last_x' = x
            /\ bt_last_y' = y
            /\ bt_connected' = r.conn
            /\ btSent' = r.sent
            /\ btOp' = "move_to"
            /\ btFrom' = btArg
            /\ btArg' = <<x, y>>
            /\ btWasInit' = bt_initialized
            /\ btWasUp' = (bt_connected /\ btLink)
            /\ UNCHANGED <<bt_buttons, btLink>>

\* BtMouseController.left_down
BtLeftDown ==
    LET b == IF bt_buttons % 2 = 1 THEN bt_buttons ELSE bt_buttons + 1
        r == BtSendMouse(bt_connected, btLink, b, 0, 0, 0)
    IN  /\ bt_buttons' = b
        /\ bt_connected' = r.conn
        /\ btSent' = r.sent
        /\ btOp' = "left_down"
        /\ btWasInit' = bt_initialized
        /\ btWasUp' = (bt_connected /\ btLink)
        /\ UNCHANGED <<bt_initialized, bt_last_x, bt_last_y, btLink, btFrom, btArg>>

\* BtMouseController.left_up
BtLeftUp ==
    LET b == IF bt_buttons % 2 = 1 THEN bt_buttons - 1 ELSE bt_buttons
        r == BtSendMouse(bt_connected, btLink, b, 0, 0, 0)
    IN  /\ bt_buttons' = b
        /\ bt_connected' = r.conn
        /\ btSent' = r.sent
        /\ btOp' = "left_up"
        /\ btWasInit' = bt_initialized
        /\ btWasUp' = (bt_connected /\ btLink)
        /\ UNCHANGED <<bt_initialized, bt_last_x, bt_last_y, btLink, btFrom, btArg>>

\* HIDController._listen: the control and the interrupt channel are accepted.
HidAccept ==
    /\ hidListening
    /\ hidListening' = FALSE
    /\ hid_connected' = TRUE
    /\ hidLink' = TRUE
    /\ hidMoved' = FALSE
    /\ UNCHANGED <<hid_last_x, hid_last_y, hidSent, hidFrom, hidWasUp>>

\* The host goes away.
HidLinkDrop ==
    /\ hidLink
    /\ hidLink' = FALSE
    /\ hidMoved' = FALSE
    /\ UNCHANGED <<hid_connected, hid_last_x, hid_last_y, hidListening, hidSent, hidFrom,
                   hidWasUp>>

\* HIDController.move_to, with send_report
HidMoveTo ==
    \E x \in HidXs, y \in HidYs :
        LET dx == ClampByte(x - hid_last_x)
            dy == ClampByte(y - hid_last_y)
            sends == ~(dx = 0 /\ dy = 0) /\ hid_connected
        IN  /\ hid_last_x' = x
            /\ hid_last_y' = y
            /\ hidSent' = IF sends /\ hidLink THEN << <<0, dx, dy>> >> ELSE <<>>
            /\ hid_connected' = IF sends /\ ~hidLink THEN FALSE ELSE hid_connected
            /\ hidFrom' = <<hid_last_x, hid_last_y>>
            /\ hidMoved' = TRUE
            /\ hidWasUp' = (hid_connected /\ hidLink)
            /\ UNCHANGED <<hidLink, hidListening>>


(***************************************************************************)
(* The session relay: one handler coroutine per connection on one event    *)
(* loop.  A handler runs without interruption from one await to the next;  *)
(* every action below is one such stretch.                                 *)
(***************************************************************************)
MaxMsgs == 4            \* client messages in a run
MaxSends == 3           \* messages of one client in a run
MaxInbox == 1           \* messages a connection has in flight

Peers == {"p1", "p2", "p3"}

SessionIds == {"s1", "s2"}

NoSession == "none"

\* What a client can send: a JOIN for a session or with no session_id (sid
\* NoSession), text that is not JSON, JSON that is not an object, a PING, and
\* any other object.
MsgKinds == {"JOIN", "MALFORMED", "NONOBJ", "PING", "DATA"}

\* The sessions a client asks to join: two of the peers share a session, the
\* third joins them or another session.
JoinChoices(p) == IF p = "p3" THEN SessionIds ELSE {"s1"}

ClientMsgs(p) ==
    [kind : {"JOIN"}, sid : JoinChoices(p) \cup {NoSession}]
        \cup [kind : MsgKinds \ {"JOIN"}, sid : {NoSession}]

\* A client message is known by its sender and its number among the sender's.
MsgIds == Peers \X (1..MaxSends)

NoMsg == <<"none", 0>>

RECURSIVE SumOver(_, _)
SumOver(f, S) ==
    IF S = {} THEN 0
    ELSE LET x == CHOOSE y \in S : TRUE IN f[x] + SumOver(f, S \ {x})

NoIter == [size |-> 0, visited |-> {}, added |-> {}, dead |-> {}, stale |-> FALSE, msg |-> NoMsg]

NoInfo == [kind |-> "none", sid |-> NoSession, state |-> "unsent", joined |-> FALSE, live |-> {}]

RelayInit ==
    /\ SESSIONS = [k \in {} |-> {}]
    /\ session_id = [p \in Peers |-> NoSession]
    /\ pc = [p \in Peers |-> "new"]
    /\ sockOpen = [p \in Peers |-> TRUE]
    /\ inbox = [p \in Peers |-> <<>>]
    /\ out = [p \in Peers |-> <<>>]
    /\ iter = [p \in Peers |-> NoIter]
    /\ crashed = [p \in Peers |-> FALSE]
    /\ sentBy = [p \in Peers |-> 0]
    /\ mInfo = [i \in MsgIds |-> NoInfo]

Running(p) == pc[p] \in {"loop", "bcast"}

\* The members of a session whose connection is open.
LiveMembers(S, open, sid) ==
    IF sid \in DOMAIN S THEN {q \in S[sid] : open[q]} ELSE {}

\* handler's finally block: discard ws, delete the entry if the set is empty.
Finally(S, p, sid) ==
    IF sid # NoSession /\ sid \in DOMAIN S
    THEN LET rest == S[sid] \ {p}
         IN  IF rest = {} THEN [k \in DOMAIN S \ {sid} |-> S[k]]
             ELSE [S EXCEPT ![sid] = rest]
    ELSE S

\* SESSIONS.setdefault(session_id, set()).add(ws)
Join(S, p, sid) ==
    IF sid \in DOMAIN S THEN [S EXCEPT ![sid] = @ \cup {p}]
    ELSE [k \in DOMAIN S \cup {sid} |-> IF k = sid THEN {p} ELSE S[k]]

\* What a change of the table means to the iterators of suspended broadcasts:
\* an iterator whose set left the table holds an emptied set; a member added
\* to its set lies before or after the iterator's place in the hash table.
IterAfter(i, sid, S1) ==
    IF sid \notin DOMAIN SESSIONS THEN i
    ELSE IF sid \notin DOMAIN S1 THEN [i EXCEPT !.stale = TRUE]
    ELSE [i EXCEPT !.added = @ \cup (S1[sid] \ SESSIONS[sid])]

ItersAfter(me, S1) ==
    [q \in Peers |-> IF q # me /\ pc[q] = "bcast"
                     THEN IterAfter(iter[q], session_id[q], S1)
                     ELSE iter[q]]

\* The observer opens a message the receive loop took: the peers live in the
\* sender's session now.
Handling(p, m) ==
    [mInfo EXCEPT ![m].state = "handling", ![m].joined = TRUE,
                  ![m].live = LiveMembers(SESSIONS, sockOpen, session_id[p]) \ {p}]

\* The observer closes a message: of those peers, the ones still live in the
\* sender's session at the end of its handling.
Handled(info, m, S1, open1) ==
    IF m = NoMsg THEN info
    ELSE [info EXCEPT ![m].state = "done",
                      ![m].live = @ \cap LiveMembers(S1, open1, session_id[m[1]])]

\* The handler of p ends: finally runs and the server closes the connection.
HandlerExit(p, info, m, exc) ==
    LET S1 == Finally(SESSIONS, p, session_id[p])
        open1 == [sockOpen EXCEPT ![p] = FALSE]
    IN  /\ SESSIONS' = S1
        /\ sockOpen' = open1
        /\ pc' = [pc EXCEPT ![p] = "done"]
        /\ crashed' = [crashed EXCEPT ![p] = exc]
        /\ iter' = [ItersAfter(p, S1) EXCEPT ![p] = NoIter]
        /\ mInfo' = Handled(info, m, S1, open1)
        /\ UNCHANGED <<session_id, out>>

\* A reply that goes to every open connection of the handler's session.
Reply_ToSession(p, info, m, frame) ==
    IF sockOpen[p]
    THEN /\ out' = [q \in Peers |->
                       IF q \in LiveMembers(SESSIONS, sockOpen, session_id[p]) \cup {p}
                       THEN Append(out[q], [type |-> frame, id |-> NoMsg])
                       ELSE out[q]]
         /\ mInfo' = Handled(info, m, SESSIONS, sockOpen)
         /\ UNCHANGED <<SESSIONS, session_id, pc, sockOpen, iter, crashed>>
    ELSE HandlerExit(p, info, m, FALSE)

\* await ws.send(frame) to the handler's own connection, then back to the
\* receive loop; ConnectionClosed ends the handler.
Reply(p, info, m, frame) ==
    IF sockOpen[p]
    THEN /\ out' = [out EXCEPT ![p] = Append(@, [type |-> frame, id |-> NoMsg])]
         /\ mInfo' = Handled(info, m, SESSIONS, sockOpen)
         /\ UNCHANGED <<SESSIONS, session_id, pc, sockOpen, iter, crashed>>
    ELSE HandlerExit(p, info, m, FALSE)

\* broadcast from the iterator's next() on: the size check, the next member
\* other than the sender and the send to it (where the coroutine is
\* suspended), or the end of the loop and the cleanup of dead sockets.
Advance(p, info, itr) ==
    LET sid == session_id[p]
    IN  IF itr.stale \/ Cardinality(SESSIONS[sid]) # itr.size
        THEN HandlerExit(p, info, itr.msg, TRUE)
        ELSE LET rest == (SESSIONS[sid] \ itr.visited) \ {p}
             IN  \/ \E q \in rest :
                        /\ out' = IF sockOpen[q]
                                  THEN [out EXCEPT ![q] = Append(@, [type |-> "FWD", id |-> itr.msg])]
                                  ELSE out
                        /\ iter' = [iter EXCEPT ![p] =
                                       [itr EXCEPT !.visited = @ \cup {q},
                                                   !.dead = IF sockOpen[q] THEN @ ELSE @ \cup {q}]]
                        /\ pc' = [pc EXCEPT ![p] = "bcast"]
                        /\ mInfo' = info
                        /\ UNCHANGED <<SESSIONS, session_id, sockOpen, crashed>>
                 \/ /\ rest \subseteq itr.added
                    /\ LET S1 == [SESSIONS EXCEPT ![sid] = @ \ itr.dead]
                       IN  /\ SESSIONS' = S1
                           /\ iter' = [ItersAfter(p, S1) EXCEPT ![p] = NoIter]
                           /\ mInfo' = Handled(info, itr.msg, S1, sockOpen)
                    /\ pc' = [pc EXCEPT ![p] = "loop"]
                    /\ UNCHANGED <<session_id, sockOpen, crashed, out>>

\* A client sends a message on its connection.
ClientSend(p, msg) ==
    /\ sockOpen[p]
    /\ pc[p] # "done"
    /\ SumOver(sentBy, Peers) < MaxMsgs
    /\ sentBy[p] < MaxSends
    /\ Len(inbox[p]) < MaxInbox
    /\ sentBy' = [sentBy EXCEPT ![p] = @ + 1]
    /\ inbox' = [inbox EXCEPT ![p] = Append(@, [kind |-> msg.kind, sid |-> msg.sid,
                                                 id |-> <<p, sentBy[p] + 1>>])]
    /\ mInfo' = [mInfo EXCEPT ![<<p, sentBy[p] + 1>>] =
                    [NoInfo EXCEPT !.kind = msg.kind, !.sid = msg.sid, !.state = "queued"]]
    /\ UNCHANGED <<SESSIONS, session_id, pc, sockOpen, out, iter, crashed>>

\* A connection closes: the client leaves or the network fails.
ClientClose(p) ==
    /\ sockOpen[p]
    /\ pc[p] # "done"
    /\ sockOpen' = [sockOpen EXCEPT ![p] = FALSE]
    /\ UNCHANGED <<SESSIONS, session_id, pc, inbox, out, iter, crashed, sentBy, mInfo>>

\* handler, lines 34-45: the first message of a connection.
RelayFirst(p) ==
    /\ pc[p] = "new"
    /\ UNCHANGED sentBy
    /\ IF inbox[p] # <<>>
       THEN LET m == Head(inbox[p])
                info == [mInfo EXCEPT ![m.id].state = "done"]
            IN  /\ inbox' = [inbox EXCEPT ![p] = Tail(@)]
                /\ IF m.kind \in {"MALFORMED", "NONOBJ"}
                   THEN HandlerExit(p, info, NoMsg, TRUE)
                   ELSE IF m.kind # "JOIN" \/ m.sid = NoSession
                   THEN /\ out' = IF sockOpen[p]
                                  THEN [out EXCEPT ![p] = Append(@, [type |-> "ERROR_JOIN", id |-> NoMsg])]
                                  ELSE out
                        /\ sockOpen' = [sockOpen EXCEPT ![p] = FALSE]
                        /\ pc' = [pc EXCEPT ![p] = "done"]
                        /\ mInfo' = info
                        /\ UNCHANGED <<SESSIONS, session_id, iter, crashed>>
                   ELSE LET S1 == IF sockOpen[p] THEN Join(SESSIONS, p, m.sid)
                                  ELSE Finally(Join(SESSIONS, p, m.sid), p, m.sid)
                        IN  /\ session_id' = [session_id EXCEPT ![p] = m.sid]
                            /\ SESSIONS' = S1
                            /\ iter' = ItersAfter(p, S1)
                            /\ out' = IF sockOpen[p]
                                      THEN [out EXCEPT ![p] = Append(@, [type |-> "JOINED", id |-> NoMsg])]
                                      ELSE out
                            /\ pc' = [pc EXCEPT ![p] = IF sockOpen[p] THEN "loop" ELSE "done"]
                            /\ mInfo' = info
                            /\ UNCHANGED <<sockOpen, crashed>>
       ELSE /\ ~sockOpen[p]
            /\ HandlerExit(p, mInfo, NoMsg, FALSE)
            /\ UNCHANGED inbox

\* A receive loop without the except clause of json.loads: text that is not
\* JSON ends the handler.
RelayLoop_InvalidJsonEnds(p) ==
    /\ pc[p] = "loop"
    /\ UNCHANGED sentBy
    /\ IF inbox[p] # <<>>
       THEN LET m == Head(inbox[p])
                info == Handling(p, m.id)
                sid == session_id[p]
            IN  /\ inbox' = [inbox EXCEPT ![p] = Tail(@)]
                /\ IF m.kind \in {"MALFORMED", "NONOBJ"} THEN HandlerExit(p, info, m.id, TRUE)
                   ELSE IF m.kind = "PING" THEN Reply(p, info, m.id, "PONG")
                   ELSE IF sid \notin DOMAIN SESSIONS
                   THEN /\ mInfo' = Handled(info, m.id, SESSIONS, sockOpen)
                        /\ UNCHANGED <<SESSIONS, session_id, pc, sockOpen, out, iter, crashed>>
                   ELSE Advance(p, info, [NoIter EXCEPT !.size = Cardinality(SESSIONS[sid]),
                                                         !.msg = m.id])
       ELSE /\ ~sockOpen[p]
            /\ HandlerExit(p, mInfo, NoMsg, FALSE)
            /\ UNCHANGED inbox

\* A receive loop that takes a later JOIN as a join of the named session.
RelayLoop_Rejoin(p) ==
    /\ pc[p] = "loop"
    /\ UNCHANGED sentBy
    /\ IF inbox[p] # <<>>
       THEN LET m == Head(inbox[p])
                info == Handling(p, m.id)
                sid == session_id[p]
            IN  /\ inbox' = [inbox EXCEPT ![p] = Tail(@)]
                /\ IF m.kind = "MALFORMED" THEN Reply(p, info, m.id, "ERROR_JSON")
                   ELSE IF m.kind = "NONOBJ" THEN HandlerExit(p, info, m.id, TRUE)
                   ELSE IF m.kind = "PING" THEN Reply(p, info, m.id, "PONG")
                   ELSE IF m.kind = "JOIN" /\ m.sid # NoSession
                   THEN LET S1 == Join(SESSIONS, p, m.sid)
                        IN  /\ SESSIONS' = S1
                            /\ iter' = ItersAfter(p, S1)
                            /\ mInfo' = Handled(info, m.id, S1, sockOpen)
                            /\ UNCHANGED <<session_id, pc, sockOpen, out, crashed>>
                   ELSE IF sid \notin DOMAIN SESSIONS
                   THEN /\ mInfo' = Handled(info, m.id, SESSIONS, sockOpen)
                        /\ UNCHANGED <<SESSIONS, session_id, pc, sockOpen, out, iter, crashed>>
                   ELSE Advance(p, info, [NoIter EXCEPT !.size = Cardinality(SESSIONS[sid]),
                                                         !.msg = m.id])
       ELSE /\ ~sockOpen[p]
            /\ HandlerExit(p, mInfo, NoMsg, FALSE)
            /\ UNCHANGED inbox

\* handler, lines 48-61: one message of the receive loop, up to the next await.
RelayLoop(p) ==
    /\ pc[p] = "loop"
    /\ UNCHANGED sentBy
    /\ IF inbox[p] # <<>>
       THEN LET m == Head(inbox[p])
                info == Handling(p, m.id)
                sid == session_id[p]
            IN  /\ inbox' = [inbox EXCEPT ![p] = Tail(@)]
                /\ IF m.kind = "MALFORMED" THEN Reply(p, info, m.id, "ERROR_JSON")
                   ELSE IF m.kind = "NONOBJ" THEN HandlerExit(p, info, m.id, TRUE)
                   ELSE IF m.kind = "PING" THEN Reply(p, info, m.id, "PONG")
                   ELSE IF sid \notin DOMAIN SESSIONS
                   THEN /\ mInfo' = Handled(info, m.id, SESSIONS, sockOpen)
                        /\ UNCHANGED <<SESSIONS, session_id, pc, sockOpen, out, iter, crashed>>
                   ELSE Advance(p, info, [NoIter EXCEPT !.size = Cardinality(SESSIONS[sid]),
                                                         !.msg = m.id])
       ELSE /\ ~sockOpen[p]
            /\ HandlerExit(p, mInfo, NoMsg, FALSE)
            /\ UNCHANGED inbox

\* broadcast resumes from a send.
RelayResume(p) ==
    /\ pc[p] = "bcast"
    /\ Advance(p, mInfo, iter[p])
    /\ UNCHANGED <<inbox, sentBy>>

(***************************************************************************)
(* EventLoop: the per-frame producer calls emit and, at shutdown, stop; one *)
(* consumer thread runs _run and hands events to MouseController.           *)
(***************************************************************************)
MaxEmits == 3           \* emit calls in a run

QueueMaxsize == 0       \* queue.Queue(): maxsize 0, the queue has no upper limit

\* An event: a string, ("MOVE", x, y) or ("SCROLL", dy); a and b hold the
\* numbers of the tuple forms.
Ev(tag, a, b) == [tag |-> tag, a |-> a, b |-> b]

\* The events of the gesture detectors, and two names that no branch of
\* _process tests.
DispatchEvents ==
    {Ev("MOVE", 3, 4), Ev("SCROLL", 0 - 2, 0)}
        \cup {Ev(t, 0, 0) : t \in {"CLICK", "PINCH_START", "PINCH_END", "SCREENSHOT",
                                   "CONTROL_LEFT", "CONTROL_RIGHT", "COPY", "PASTE"}}

\* The None that stop() enqueues, and "no event".
NoneItem == [e |-> Ev("None", 0, 0), n |-> 0]

NoCall == [op |-> "none", a |-> 0, b |-> 0]

DispatchInit ==
    /\ ev_q = <<>>
    /\ ev_stop = FALSE
    /\ ev_pc = "new"
    /\ ev_cur = NoneItem
    /\ mouse_left = FALSE
    /\ mouse_pos = <<0, 0>>
    /\ evEmitted = 0
    /\ evTaken = <<>>
    /\ evLog = <<>>
    /\ evStopAt = None
    /\ evHeldAtStop = FALSE

\* Queue.put blocks only on a queue with maxsize > 0 that is full.
PutBlocks(queue) == QueueMaxsize > 0 /\ Len(queue) >= QueueMaxsize

\* A queue that hands out its newest item.
QueueGet_Newest(queue) ==
    [item |-> queue[Len(queue)], rest |-> SubSeq(queue, 1, Len(queue) - 1)]

\* Queue.get on a non-empty queue: the oldest item.
QueueGet(queue) == [item |-> Head(queue), rest |-> Tail(queue)]

\* _process: the backend call an event leads to, NoCall when no branch matches.
Process(e) ==
    IF e.tag = "MOVE" THEN [op |-> "move_to", a |-> e.a, b |-> e.b]
    ELSE IF e.tag = "CLICK" THEN [op |-> "click_left", a |-> 0, b |-> 0]
    ELSE IF e.tag = "PINCH_START" THEN [op |-> "left_down", a |-> 0, b |-> 0]
    ELSE IF e.tag = "PINCH_END" THEN [op |-> "left_up", a |-> 0, b |-> 0]
    ELSE IF e.tag = "SCREENSHOT" THEN [op |-> "screenshot", a |-> 0, b |-> 0]
    ELSE IF e.tag = "SCROLL" THEN [op |-> "scroll", a |-> 0, b |-> e.a]
    ELSE NoCall

\* MouseController: the left button after a call.
MouseLeftAfter(left, call) ==
    IF call.op = "left_down" THEN TRUE
    ELSE IF call.op \in {"left_up", "click_left"} THEN FALSE
    ELSE left

\* MouseController: the pointer after a call.
MousePosAfter(pos, call) ==
    IF call.op = "move_to" THEN <<call.a, call.b>> ELSE pos

\* start(): the consumer thread begins at the loop test of _run.
Start ==
    /\ ev_pc = "new"
    /\ ev_pc' = "test"
    /\ UNCHANGED <<ev_q, ev_stop, ev_cur, mouse_left, mouse_pos,
                   evEmitted, evTaken, evLog, evStopAt, evHeldAtStop>>

\* emit(event), called by the frame loop until stop().
Emit(e) ==
    /\ ev_pc # "new"
    /\ ~ev_stop
    /\ evEmitted < MaxEmits
    /\ ~PutBlocks(ev_q)
    /\ ev_q' = Append(ev_q, [e |-> e, n |-> evEmitted + 1])
    /\ evEmitted' = evEmitted + 1
    /\ UNCHANGED <<ev_stop, ev_pc, ev_cur, mouse_left, mouse_pos,
                   evTaken, evLog, evStopAt, evHeldAtStop>>

\* stop(): set the flag, enqueue None.
Stop ==
    /\ ev_pc # "new"
    /\ ~ev_stop
    /\ ~PutBlocks(ev_q)
    /\ ev_stop' = TRUE
    /\ ev_q' = Append(ev_q, NoneItem)
    /\ evStopAt' = evEmitted
    /\ evHeldAtStop' = mouse_left
    /\ UNCHANGED <<ev_pc, ev_cur, mouse_left, mouse_pos, evEmitted, evTaken, evLog>>

\* _run: the test of the while loop.
RunTest ==
    /\ ev_pc = "test"
    /\ ev_pc' = IF ev_stop THEN "done" ELSE "get"
    /\ UNCHANGED <<ev_q, ev_stop, ev_cur, mouse_left, mouse_pos,
                   evEmitted, evTaken, evLog, evStopAt, evHeldAtStop>>

\* _run: q.get() returns; None goes back to the test, an event goes to
\* _process, which enters its backend call or matches no branch.
RunGet ==
    /\ ev_pc = "get"
    /\ ev_q # <<>>
    /\ LET g == QueueGet(ev_q)
           call == Process(g.item.e)
       IN  /\ ev_q' = g.rest
           /\ IF g.item = NoneItem
              THEN /\ ev_pc' = "test"
                   /\ UNCHANGED <<ev_cur, evTaken, evLog>>
              ELSE /\ evTaken' = Append(evTaken, g.item)
                   /\ IF call = NoCall
                      THEN /\ ev_pc' = "test"
                           /\ UNCHANGED <<ev_cur, evLog>>
                      ELSE /\ ev_pc' = "call"
                           /\ ev_cur' = g.item
                           /\ evLog' = Append(evLog, [at |-> "begin", n |-> g.item.n, call |-> call])
    /\ UNCHANGED <<ev_stop, mouse_left, mouse_pos, evEmitted, evStopAt, evHeldAtStop>>

\* _process: the backend call returns.
ProcessReturn ==
    /\ ev_pc = "call"
    /\ LET call == Process(ev_cur.e)
       IN  /\ mouse_left' = MouseLeftAfter(mouse_left, call)
           /\ mouse_pos' = MousePosAfter(mouse_pos, call)
           /\ evLog' = Append(evLog, [at |-> "end", n |-> ev_cur.n, call |-> call])
    /\ ev_pc' = "test"
    /\ ev_cur' = NoneItem
    /\ UNCHANGED <<ev_q, ev_stop, evEmitted, evTaken, evStopAt, evHeldAtStop>>

\* _process: the backend call raises.  Neither _process nor _run has a
\* handler, so the exception ends the consumer thread; the backend state is
\* as before the call.
ProcessRaise ==
    /\ ev_pc = "call"
    /\ evLog' = Append(evLog, [at |-> "raise", n |-> ev_cur.n, call |-> Process(ev_cur.e)])
    /\ ev_pc' = "dead"
    /\ ev_cur' = NoneItem
    /\ UNCHANGED <<ev_q, ev_stop, mouse_left, mouse_pos, evEmitted, evTaken, evStopAt,
                   evHeldAtStop>>

(***************************************************************************)
(* Construction: PinchDetector and CursorMapper built with parameters of   *)
(* the caller's choice and then updated.                                   *)
(***************************************************************************)
MaxUses == 3            \* updates of the constructed objects in a run

\* Thresholds on both sides of each other, ROI bounds in either order.
KThresholds == {20, 30, 40}

KRoiBounds == {1, 3, 5}

ConstructInit ==
    /\ kPinch = [built |-> FALSE, pinch_threshold |-> 0, release_threshold |-> 0,
                 start |-> None, drag |-> FALSE, used |-> FALSE]
    /\ kCursor = [built |-> FALSE, roi_x_min |-> 0, roi_x_max |-> 0,
                  roi_y_min |-> 0, roi_y_max |-> 0, used |-> FALSE]
    /\ kNow = 0
    /\ kUses = 0
    /\ kResult = "none"

\* PinchDetector.__init__: the parameters are stored as given.
NewPinch(pt, rt) ==
    /\ ~kPinch.built
    /\ kPinch' = [built |-> TRUE, pinch_threshold |-> pt, release_threshold |-> rt,
                  start |-> None, drag |-> FALSE, used |-> FALSE]
    /\ UNCHANGED <<kCursor, kNow, kUses, kResult>>

\* CursorMapper.__init__: the parameters are stored as given.
NewCursor(x0, x1, y0, y1) ==
    /\ ~kCursor.built
    /\ kCursor' = [built |-> TRUE, roi_x_min |-> x0, roi_x_max |-> x1,
                   roi_y_min |-> y0, roi_y_max |-> y1, used |-> FALSE]
    /\ UNCHANGED <<kPinch, kNow, kUses, kResult>>

\* PinchDetector.update of the constructed detector: the branch on the
\* object's own thresholds, the pinch branch first.
UsePinch(d, step) ==
    /\ kPinch.built
    /\ kUses < MaxUses
    /\ LET now == kNow + step
           pinched == d < kPinch.pinch_threshold
           released == ~pinched /\ d > kPinch.release_threshold
           s1 == IF kPinch.start = None THEN now ELSE kPinch.start
           fire == ~kPinch.drag /\ (now - s1) >= HoldDelay
       IN  /\ kNow' = now
           /\ kPinch' = IF pinched
                        THEN [kPinch EXCEPT !.start = s1, !.drag = @ \/ fire, !.used = TRUE]
                        ELSE IF released
                        THEN [kPinch EXCEPT !.start = None, !.drag = FALSE, !.used = TRUE]
                        ELSE [kPinch EXCEPT !.used = TRUE]
           /\ kResult' = IF pinched /\ fire THEN "PINCH_START"
                         ELSE IF released /\ kPinch.start # None /\ kPinch.drag THEN "PINCH_END"
                         ELSE IF released /\ kPinch.start # None /\ (now - kPinch.start) > ClickDebounce
                         THEN "CLICK"
                         ELSE "no event"
    /\ kUses' = kUses + 1
    /\ UNCHANGED kCursor

\* CursorMapper.update of the constructed mapper: the two divisions by the
\* ROI extent raise ZeroDivisionError when an extent is zero.
UseCursor ==
    /\ kCursor.built
    /\ kUses < MaxUses
    /\ kResult' = IF kCursor.roi_x_max - kCursor.roi_x_min = 0
                     \/ kCursor.roi_y_max - kCursor.roi_y_min = 0
                  THEN "ZeroDivisionError" ELSE "pixel"
    /\ kCursor' = [kCursor EXCEPT !.used = TRUE]
    /\ kUses' = kUses + 1
    /\ UNCHANGED <<kPinch, kNow>>

(***************************************************************************)
(* FrameDetector.  A hand is its label and six coordinates in units of     *)
(* 0.01: the y of thumb tip, IP and MCP (t4, t3, t2) and the x of index    *)
(* tip, PIP and MCP (i8, i6, i5).                                          *)
(***************************************************************************)
MaxFrameTime == 90      \* the clock runs this far beyond its first reading

ActivationTime == 20    \* activation_time = 1.0
FrameCooldown == 40     \* cooldown_s = 2.0
FramePoseMargin == 1    \* the literal 0.01 of the pose tests

\* time.time() is far beyond cooldown_s when the detector is built.
FrameEpoch == 2 * FrameCooldown

FrameSteps == {0, 1, ActivationTime, ActivationTime + 1, FrameCooldown}

Hand(label, t4, t3, t2, i8, i6, i5) ==
    [label |-> label, t4 |-> t4, t3 |-> t3, t2 |-> t2, i8 |-> i8, i6 |-> i6, i5 |-> i5]

\* Left hands: thumb up and index right; the thumb IP exactly 0.01 below the tip.
LeftHands == {Hand("Left", 10, 12, 14, 30, 28, 26), Hand("Left", 10, 11, 14, 30, 28, 26)}

\* Right hands: thumb down and index left; the index PIP exactly 0.01 right of the tip.
RightHands == {Hand("Right", 14, 12, 10, 26, 28, 30), Hand("Right", 14, 12, 10, 26, 27, 30)}

\* What the tracker reports: no hand, one hand, a Left and a Right, two hands
\* with the same label, three hands.
FrameResults ==
    {<<>>}
        \cup {<<l>> : l \in LeftHands}
        \cup {<<l, r>> : l \in LeftHands, r \in RightHands}
        \cup {<<r, l>> : l \in LeftHands, r \in RightHands}
        \cup {<<l, [l EXCEPT !.t4 = 9]>> : l \in LeftHands}
        \cup {<<l, r, r>> : l \in LeftHands, r \in RightHands}

FrameInit ==
    /\ pose_start_time = None
    /\ last_trigger_time = 0
    /\ fNow = FrameEpoch
    /\ fResults = <<>>
    /\ fEvents = <<>>
    /\ fPrevShot = None
    /\ fCountFrom = None

\* FrameDetector._is_left_hand_pose
IsLeftHandPose(h) ==
    /\ h.t4 < h.t3 - FramePoseMargin /\ h.t3 < h.t2 - FramePoseMargin
    /\ h.i8 > h.i6 + FramePoseMargin /\ h.i6 > h.i5 + FramePoseMargin

\* FrameDetector._is_right_hand_pose
IsRightHandPose(h) ==
    /\ h.t4 > h.t3 + FramePoseMargin /\ h.t3 > h.t2 + FramePoseMargin
    /\ h.i8 < h.i6 - FramePoseMargin /\ h.i6 < h.i5 - FramePoseMargin

\* The hand the loop over multi_handedness leaves in left_hand_lms or
\* right_hand_lms: the last one with the label, as a sequence of one hand,
\* empty when there is none.
HandLabelled(res, label) ==
    LET idx == {i \in 1..Len(res) : res[i].label = label}
    IN  IF idx = {} THEN <<>>
        ELSE <<res[CHOOSE i \in idx : \A j \in idx : j <= i]>>

\* An update without the cooldown test.
FrameStep_NoCooldown(start, last, res, now) ==
    IF Len(res) # 2
    THEN [start |-> None, last |-> last, events |-> <<>>]
    ELSE IF HandLabelled(res, "Left") = <<>> \/ HandLabelled(res, "Right") = <<>>
    THEN [start |-> None, last |-> last, events |-> <<>>]
    ELSE IF IsLeftHandPose(HandLabelled(res, "Left")[1])
            /\ IsRightHandPose(HandLabelled(res, "Right")[1])
    THEN IF start = None
         THEN [start |-> now, last |-> last, events |-> <<>>]
         ELSE IF now - start > ActivationTime
         THEN [start |-> None, last |-> now, events |-> <<"SCREENSHOT">>]
         ELSE [start |-> start, last |-> last, events |-> <<>>]
    ELSE [start |-> None, last |-> last, events |-> <<>>]

\* FrameDetector.update on state (start, last), hands res and clock reading
\* now: the new state and the returned list.
FrameStep(start, last, res, now) ==
    IF (now - last) < FrameCooldown
    THEN [start |-> None, last |-> last, events |-> <<>>]
    ELSE IF Len(res) # 2
    THEN [start |-> None, last |-> last, events |-> <<>>]
    ELSE IF HandLabelled(res, "Left") = <<>> \/ HandLabelled(res, "Right") = <<>>
    THEN [start |-> None, last |-> last, events |-> <<>>]
    ELSE IF IsLeftHandPose(HandLabelled(res, "Left")[1])
            /\ IsRightHandPose(HandLabelled(res, "Right")[1])
    THEN IF start = None
         THEN [start |-> now, last |-> last, events |-> <<>>]
         ELSE IF now - start > ActivationTime
         THEN [start |-> None, last |-> now, events |-> <<"SCREENSHOT">>]
         ELSE [start |-> start, last |-> last, events |-> <<>>]
    ELSE [start |-> None, last |-> last, events |-> <<>>]

\* The two-hand frame pose as the specification words it: exactly two hands,
\* one labelled Left and one labelled Right, each in its pose.
FramePoseHolds(res) ==
    /\ Len(res) = 2
    /\ \E i, j \in 1..2 :
          /\ i # j
          /\ res[i].label = "Left" /\ res[j].label = "Right"
          /\ res[i].t4 < res[i].t3 - FramePoseMargin /\ res[i].t3 < res[i].t2 - FramePoseMargin
          /\ res[i].i8 > res[i].i6 + FramePoseMargin /\ res[i].i6 > res[i].i5 + FramePoseMargin
          /\ res[j].t4 > res[j].t3 + FramePoseMargin /\ res[j].t3 > res[j].t2 + FramePoseMargin
          /\ res[j].i8 < res[j].i6 - FramePoseMargin /\ res[j].i6 < res[j].i5 - FramePoseMargin

\* One call of update.  The observers follow the inputs and the returned
\* lists: fPrevShot is the time of the latest SCREENSHOT before this call,
\* fCountFrom the first update of the unbroken run of pose frames that lies
\* after that SCREENSHOT and outside its cooldown.
FrameUpdate ==
    \E step \in FrameSteps, res \in FrameResults :
        LET now == fNow + step
            r == FrameStep(pose_start_time, last_trigger_time, res, now)
            shot == IF fEvents = <<"SCREENSHOT">> THEN fNow ELSE fPrevShot
            cooling == shot # None /\ now - shot < FrameCooldown
            held == IF fEvents = <<"SCREENSHOT">> THEN None ELSE fCountFrom
        IN  /\ now <= FrameEpoch + MaxFrameTime
            /\ fNow' = now
            /\ fResults' = res
            /\ pose_start_time' = r.start
            /\ last_trigger_time' = r.last
            /\ fEvents' = r.events
            /\ fPrevShot' = shot
            /\ fCountFrom' = IF ~FramePoseHolds(res) \/ cooling THEN None
                             ELSE IF held = None THEN now
                             ELSE held

(***************************************************************************)
(* SwipeDetector.  A hand is the three distances between adjacent          *)
(* fingertips, the number of the four fingers whose tip is above its PIP,  *)
(* the position of the middle fingertip and the label; lengths in units of *)
(* 0.01.                                                                   *)
(***************************************************************************)
MaxSwipeTime == 8       \* the clock runs this far

FingerTogetherThreshold == 6    \* finger_together_threshold = 0.06
MinSwipeDistance == 2           \* min_swipe_distance = 0.02
SwipeHoldTime == 3              \* hold_time = 0.15

SwipeSteps == {0, 1, SwipeHoldTime}

SwipeHands ==
    [pairs : {<<6, 6, 7>>, <<6, 7, 7>>}, extended : {3, 4},
     x : {0, 2, 4}, y : {0, 2}, label : {"Left", "Right", "None"}]

\* What update is called with: None or a hand.
SwipeFrames == {<<>>} \cup {<<h>> : h \in SwipeHands}

SwipeInit ==
    /\ swipe_start_position = <<>>
    /\ swipe_last_position = <<>>
    /\ swipe_start_time = None
    /\ wNow = 0
    /\ wFrame = <<>>
    /\ wResult = "None"
    /\ wEmitted = 0
    /\ wEntryPos = <<>>
    /\ wEntryTime = None

\* SwipeDetector._fingers_together: at least two of the three pairs are close.
SwipeFingersTogether(h) ==
    Cardinality({i \in 1..3 : h.pairs[i] <= FingerTogetherThreshold}) >= 2

\* SwipeDetector._all_fingers_extended
AllFingersExtended(h) == h.extended = 4

\* An update that also takes a diagonal movement for a horizontal one.
SwipeStep_Diagonal(pos, start, frame, now) ==
    IF frame = <<>>
    THEN [pos |-> <<>>, last |-> <<>>, start |-> None, result |-> "None"]
    ELSE LET h == frame[1]
             cur == <<h.x, h.y>>
         IN  IF SwipeFingersTogether(h) /\ AllFingersExtended(h)
             THEN IF pos = <<>>
                  THEN [pos |-> cur, last |-> cur, start |-> now, result |-> "None"]
                  ELSE LET dx == cur[1] - pos[1]
                           dy == cur[2] - pos[2]
                       IN  IF /\ dx * dx + dy * dy >= MinSwipeDistance * MinSwipeDistance
                              /\ now - start >= SwipeHoldTime
                              /\ Abs(dx) >= Abs(dy)
                           THEN [pos |-> <<>>, last |-> <<>>, start |-> None,
                                 result |-> IF h.label = "Left" THEN "CONTROL_LEFT"
                                            ELSE IF h.label = "Right" THEN "CONTROL_RIGHT"
                                            ELSE IF dx > 0 THEN "CONTROL_RIGHT"
                                            ELSE "CONTROL_LEFT"]
                           ELSE [pos |-> pos, last |-> cur, start |-> start, result |-> "None"]
             ELSE [pos |-> <<>>, last |-> <<>>, start |-> None, result |-> "None"]

\* SwipeDetector.update on state (pos, start), argument frame and clock
\* reading now.  sqrt(dx^2 + dy^2) >= min_swipe_distance is compared squared.
SwipeStep(pos, start, frame, now) ==
    IF frame = <<>>
    THEN [pos |-> <<>>, last |-> <<>>, start |-> None, result |-> "None"]
    ELSE LET h == frame[1]
             cur == <<h.x, h.y>>
         IN  IF SwipeFingersTogether(h) /\ AllFingersExtended(h)
             THEN IF pos = <<>>
                  THEN [pos |-> cur, last |-> cur, start |-> now, result |-> "None"]
                  ELSE LET dx == cur[1] - pos[1]
                           dy == cur[2] - pos[2]
                       IN  IF /\ dx * dx + dy * dy >= MinSwipeDistance * MinSwipeDistance
                              /\ now - start >= SwipeHoldTime
                              /\ Abs(dx) > Abs(dy)
                           THEN [pos |-> <<>>, last |-> <<>>, start |-> None,
                                 result |-> IF h.label = "Left" THEN "CONTROL_LEFT"
                                            ELSE IF h.label = "Right" THEN "CONTROL_RIGHT"
                                            ELSE IF dx > 0 THEN "CONTROL_RIGHT"
                                            ELSE "CONTROL_LEFT"]
                           ELSE [pos |-> pos, last |-> cur, start |-> start, result |-> "None"]
             ELSE [pos |-> <<>>, last |-> <<>>, start |-> None, result |-> "None"]

\* The four-finger pose as the specification words it: a hand whose four
\* fingers are extended and held together.
SwipePoseHolds(frame) ==
    /\ frame # <<>>
    /\ frame[1].extended = 4
    /\ Cardinality({i \in 1..3 : frame[1].pairs[i] <= FingerTogetherThreshold}) >= 2

\* One call of update.  wEmitted counts the results of the calls since the
\* last call whose frame was not in the pose.  wEntryPos and wEntryTime
\* follow the frames and the results alone: the pose is entered on the first
\* frame in the pose after a frame out of it or after a returned result.
SwipeUpdate ==
    \E step \in SwipeSteps, frame \in SwipeFrames :
        LET now == wNow + step
            r == SwipeStep(swipe_start_position, swipe_start_time, frame, now)
        IN  /\ now <= MaxSwipeTime
            /\ wNow' = now
            /\ wFrame' = frame
            /\ swipe_start_position' = r.pos
            /\ swipe_last_position' = r.last
            /\ swipe_start_time' = r.start
            /\ wResult' = r.result
            /\ wEmitted' = IF ~SwipePoseHolds(frame) THEN 0
                           ELSE IF r.result # "None" THEN wEmitted + 1
                           ELSE wEmitted
            /\ wEntryPos' = IF ~SwipePoseHolds(frame) THEN <<>>
                            ELSE IF wEntryPos = <<>> \/ wResult # "None"
                            THEN <<frame[1].x, frame[1].y>>
                            ELSE wEntryPos
            /\ wEntryTime' = IF ~SwipePoseHolds(frame) THEN None
                             ELSE IF wEntryTime = None \/ wResult # "None" THEN now
                             ELSE wEntryTime

(***************************************************************************)
(* CopyPasteGestureHandler.  process_landmarks runs on the thread of its   *)
(* caller, the frame loop; _trigger_action is called from it directly.     *)
(***************************************************************************)
MaxCopyTime == 45       \* the clock runs this far beyond its first reading

HoldDuration == 20      \* HOLD_DURATION = 1.0

\* time.time() is never 0: a stored start time is always true in a test.
CopyEpoch == HoldDuration

CopySteps == {0, 1, HoldDuration - 1, HoldDuration}

\* The values of _classify_gesture.
CopyGestures == {"copy", "paste", "None"}

CopyPasteInit ==
    /\ cp_active_gesture = "None"
    /\ cp_gesture_start_time = None
    /\ cpNow = CopyEpoch
    /\ cpGesture = "None"
    /\ cpHotkey = "none"
    /\ cpSince = None

\* _trigger_action: the key chord pyautogui.hotkey is called with.
TriggerAction(gesture) ==
    IF gesture = "copy" THEN "command+c"
    ELSE IF gesture = "paste" THEN "command+v"
    ELSE "none"

\* A hold test that passes one tick early.
CopyHeld_Early(start, now) ==
    start # None /\ start # 0 /\ now - start >= HoldDuration - 1

\* Lines 56-58: a start time is stored and HOLD_DURATION has elapsed.
CopyHeld(start, now) ==
    start # None /\ start # 0 /\ now - start >= HoldDuration

\* process_landmarks on a hand classified as gesture, the clock reading now.
\* The observer cpSince follows the classifications and the key chords
\* alone: a run starts on a frame whose shape differs from the frame
\* before, or that follows a key chord.
ProcessLandmarks ==
    \E step \in CopySteps, gesture \in CopyGestures :
        LET now == cpNow + step
        IN  /\ now <= CopyEpoch + MaxCopyTime
            /\ cpNow' = now
            /\ cpGesture' = gesture
            /\ cpSince' = IF gesture = "None" THEN None
                          ELSE IF gesture # cpGesture \/ cpHotkey # "none" \/ cpSince = None
                          THEN now
                          ELSE cpSince
            /\ IF gesture # cp_active_gesture
               THEN /\ cp_active_gesture' = gesture
                    /\ cp_gesture_start_time' = IF gesture # "None" THEN now ELSE None
                    /\ cpHotkey' = "none"
               ELSE IF gesture # "None" /\ CopyHeld(cp_gesture_start_time, now)
               THEN /\ cpHotkey' = TriggerAction(gesture)
                    /\ cp_active_gesture' = "None"
                    /\ cp_gesture_start_time' = None
               ELSE /\ cpHotkey' = "none"
                    /\ UNCHANGED <<cp_active_gesture, cp_gesture_start_time>>

(***************************************************************************)
(* main(): detectors, mapper and dispatcher are built, the dispatcher is   *)
(* started, then the loop reads frames.  One action is one pass of the     *)
(* loop, from cam.read() to the end of the pass or to the exception that   *)
(* ends it.                                                                *)
(***************************************************************************)
MaxFrames == 3          \* frames without a hand in a run

\* The hands the tracker reports to the loop: in and out of the scroll pose.
MainScrollFrames ==
    {f \in ScrollFrames : f.it \in {370, 356} /\ f.mt \in {370, 355} /\ f.rt = 400
                          /\ f.kt = 400 /\ f.sep \in {0, 25600}}

MainInit ==
    /\ main_pc = "setup"
    /\ mFrames = 0
    /\ mHand = FALSE
    /\ mMoves = 0
    /\ mSmoothed = <<FALSE, 0, 0>>

\* A pass that emits MOVE whether the scroll detector is active or not.
MainMoves_Always(scrolling, pixel) == <<Ev("MOVE", pixel[1], pixel[2])>>

\* Lines 432-434: the MOVE events of one pass.
MainMoves(scrolling, pixel) ==
    IF ~scrolling THEN <<Ev("MOVE", pixel[1], pixel[2])>> ELSE <<>>

\* The events update lists returned, as the loop emits them.
MainEvents(list) ==
    [i \in 1..Len(list) |->
        IF list[i] \in STRING THEN Ev(list[i], 0, 0) ELSE Ev(list[i][1], list[i][2], 0)]

\* events.emit for each event of a list, in order.
MainEmitAll(queue, from, list) ==
    queue \o [i \in 1..Len(list) |-> [e |-> list[i], n |-> from + i]]

\* Lines 396-399: the dispatcher is started before the loop.
MainSetup ==
    /\ main_pc = "setup"
    /\ Start
    /\ main_pc' = "loop"
    /\ UNCHANGED <<mFrames, mHand, mMoves, mSmoothed>>

\* A pass on a frame without a hand: nothing is updated or emitted.
MainNoHand ==
    /\ main_pc = "loop"
    /\ mFrames < MaxFrames
    /\ mFrames' = mFrames + 1
    /\ mHand' = FALSE
    /\ mMoves' = 0
    /\ mSmoothed' = <<cursor_set, sx, sy>>
    /\ UNCHANGED main_pc

\* A pass on a frame with a hand: scroll.update, the cursor and its MOVE
\* unless scrolling, the pinch events, the scroll events; then line 446
\* reads frame_detector, a name that is bound nowhere: NameError leaves the
\* loop and the finally clause calls events.stop().
MainHandFrame ==
    /\ main_pc = "loop"
    /\ ~ev_stop
    /\ ScrollUpdate
    /\ sFrame' \in MainScrollFrames
    /\ IF is_scrolling' THEN UNCHANGED cursorVars ELSE CursorUpdate
    /\ PinchUpdate
    /\ LET emitted == MainMoves(is_scrolling', cOut') \o MainEvents(pEvents')
                          \o MainEvents(sEvents')
       IN  /\ ev_q' = Append(MainEmitAll(ev_q, evEmitted, emitted), NoneItem)
           /\ evEmitted' = evEmitted + Len(emitted)
           /\ evStopAt' = evEmitted + Len(emitted)
           /\ mMoves' = Cardinality({i \in 1..Len(emitted) : emitted[i].tag = "MOVE"})
    /\ ev_stop' = TRUE
    /\ evHeldAtStop' = mouse_left
    /\ main_pc' = "NameError"
    /\ mFrames' = mFrames + 1
    /\ mHand' = TRUE
    /\ mSmoothed' = <<cursor_set, sx, sy>>
    /\ UNCHANGED <<ev_pc, ev_cur, mouse_left, mouse_pos, evTaken, evLog>>

\* cam.read() returns None or cam.show() reports the quit key: break, and
\* the finally clause calls events.stop().
MainCameraEnd ==
    /\ main_pc = "loop"
    /\ Stop
    /\ main_pc' = "ended"
    /\ mHand' = FALSE
    /\ mMoves' = 0
    /\ mSmoothed' = <<cursor_set, sx, sy>>
    /\ UNCHANGED mFrames

(***************************************************************************)
(* PalmArrowDetector.  Time in this section is in units of 0.5 s.  A hand   *)
(* is its label, the number of the five fingers whose tip is above its     *)
(* joint, the height of the fingertips' mean above the wrist and the       *)
(* largest distance between adjacent fingertips, lengths in units of 0.01, *)
(* and the wrist's x in units of 0.1.                                      *)
(***************************************************************************)
MaxPalmTime == 5        \* the clock runs this far beyond its first reading

PalmHoldTime == 4       \* hold_time = 2.0
PalmCooldown == 1       \* cooldown = 0.5
PalmUpMargin == 2       \* the literal 0.02 of _palm_facing_up
PalmMaxDistance == 4    \* max_distance = 0.04
PalmMidX == 5           \* the literal 0.5 of _identify_hand

\* time.time() is far beyond cooldown when the detector is built.
PalmEpoch == PalmCooldown

PalmSteps == {0, 1, PalmHoldTime}

PalmHand(label, extended, up, gap, x) ==
    [label |-> label, extended |-> extended, up |-> up, gap |-> gap, x |-> x]

\* Per label a hand in the pose and one out of it: a left hand with the
\* wrist exactly 0.02 below the fingertips, a right hand with a fingertip
\* pair just too far apart.
PalmHands(label) ==
    {PalmHand(label, 5, 3, 4, 3),
     IF label = "Left" THEN PalmHand(label, 5, 2, 4, 3) ELSE PalmHand(label, 5, 3, 5, 3)}

\* What the tracker reports: no hand, one hand, a left and a right hand in
\* either order, one hand without a usable label.
PalmResults ==
    {<<>>}
        \cup {<<h>> : h \in PalmHands("Left") \cup PalmHands("Right")}
        \cup {<<l, r>> : l \in PalmHands("Left"), r \in PalmHands("Right")}
        \cup {<<r, l>> : l \in PalmHands("Left"), r \in PalmHands("Right")}
        \cup {<<PalmHand("", 5, 3, 4, 7)>>}

PalmInit ==
    /\ left_palm_up_start = None
    /\ right_palm_up_start = None
    /\ last_left_trigger = 0
    /\ last_right_trigger = 0
    /\ aNow = PalmEpoch
    /\ aResults = <<>>
    /\ aEvent = "None"
    /\ aTriggered = {}
    /\ aLeftSince = None
    /\ aRightSince = None
    /\ aPrevLeft = None
    /\ aPrevRight = None

\* _is_squished_palm_up: all five fingers extended, palm up, fingers together.
IsSquishedPalmUp(h) ==
    /\ h.extended = 5
    /\ h.up > PalmUpMargin
    /\ h.gap <= PalmMaxDistance

\* _identify_hand
IdentifyHand(h) ==
    IF h.label = "Left" THEN "left"
    ELSE IF h.label = "Right" THEN "right"
    ELSE IF h.x < PalmMidX THEN "left" ELSE "right"

\* Lines 152-206: the body of the loop for one hand.  st holds the four
\* fields, the local event and the set of trigger branches executed so far.
PalmOneHand(st, h, now) ==
    LET user == IdentifyHand(h)
        pose == IsSquishedPalmUp(h)
        afterLeft ==
            IF user = "left" /\ pose
            THEN IF st.ls = None THEN [st EXCEPT !.ls = now]
                 ELSE IF now - st.ls >= PalmHoldTime /\ now - st.ll >= PalmCooldown
                 THEN [st EXCEPT !.event = "CONTROL_LEFT", !.ll = now, !.ls = None,
                                 !.trig = @ \cup {"CONTROL_LEFT"}]
                 ELSE st
            ELSE IF user = "left" THEN [st EXCEPT !.ls = None] ELSE st
    IN  IF user = "right" /\ pose
        THEN IF afterLeft.rs = None THEN [afterLeft EXCEPT !.rs = now]
             ELSE IF now - afterLeft.rs >= PalmHoldTime /\ now - afterLeft.lr >= PalmCooldown
             THEN [afterLeft EXCEPT !.event = "CONTROL_RIGHT", !.lr = now, !.rs = None,
                                    !.trig = @ \cup {"CONTROL_RIGHT"}]
             ELSE afterLeft
        ELSE IF user = "right" THEN [afterLeft EXCEPT !.rs = None] ELSE afterLeft

\* The loop over results.multi_hand_landmarks, from hand i on.
RECURSIVE PalmLoop(_, _, _, _)
PalmLoop(st, res, i, now) ==
    IF i > Len(res) THEN st
    ELSE PalmLoop(PalmOneHand(st, res[i], now), res, i + 1, now)

\* PalmArrowDetector.update: the fields after the call, the returned event
\* and the trigger branches executed.
PalmStep(ls, rs, ll, lr, res, now) ==
    IF res = <<>>
    THEN [ls |-> None, rs |-> None, ll |-> ll, lr |-> lr, event |-> "None", trig |-> {}]
    ELSE PalmLoop([ls |-> ls, rs |-> rs, ll |-> ll, lr |-> lr, event |-> "None", trig |-> {}],
                  res, 1, now)

\* The hand of one side is seen in the tight palm-up pose, as the
\* specification words it: the frame shows a hand of that side with five
\* fingers extended, the palm up and the fingers together.
PalmSeen(res, side) ==
    \E i \in 1..Len(res) :
        /\ (IF res[i].label = "Left" THEN "left"
            ELSE IF res[i].label = "Right" THEN "right"
            ELSE IF res[i].x < PalmMidX THEN "left" ELSE "right") = side
        /\ res[i].extended = 5 /\ res[i].up > PalmUpMargin /\ res[i].gap <= PalmMaxDistance

\* One call of update.  The observers follow the frames and the returned
\* events alone.
PalmUpdate ==
    \E step \in PalmSteps, res \in PalmResults :
        LET now == aNow + step
            r == PalmStep(left_palm_up_start, right_palm_up_start, last_left_trigger,
                          last_right_trigger, res, now)
        IN  /\ now <= PalmEpoch + MaxPalmTime
            /\ aNow' = now
            /\ aResults' = res
            /\ left_palm_up_start' = r.ls
            /\ right_palm_up_start' = r.rs
            /\ last_left_trigger' = r.ll
            /\ last_right_trigger' = r.lr
            /\ aEvent' = r.event
            /\ aTriggered' = r.trig
            /\ aLeftSince' = IF ~PalmSeen(res, "left") THEN None
                             ELSE IF aLeftSince = None THEN now ELSE aLeftSince
            /\ aRightSince' = IF ~PalmSeen(res, "right") THEN None
                              ELSE IF aRightSince = None THEN now ELSE aRightSince
            /\ aPrevLeft' = IF aEvent = "CONTROL_LEFT" THEN aNow ELSE aPrevLeft
            /\ aPrevRight' = IF aEvent = "CONTROL_RIGHT" THEN aNow ELSE aPrevRight

(***************************************************************************)
(* StopResumeDetector.  Time in this section is in units of 0.2 s.  A hand  *)
(* is its label, the number of the five fingers whose tip is above its     *)
(* joint and the height of the fingertips' mean above the wrist in units   *)
(* of 0.01.  A position sample is kept as its time; what the arc test and  *)
(* the distance test make of the coordinates is an input of the frame:     *)
(* larc and rarc say whether the samples in the window have the radius and *)
(* the angular span of an arc, conn whether the two index tips are within  *)
(* finger_tip_connection_threshold.                                        *)
(***************************************************************************)
MaxStopTime == 6        \* the clock runs this far beyond its first reading
MaxSamples == 5         \* samples a position buffer holds in a run

StopHoldTime == 5       \* stop_hold_time = 1.0
CircleTimeWindow == 10  \* circle_time_window = 2.0
MinArcPoints == 5       \* min_arc_points = 5
ResumeCooldown == 4     \* self._resume_cooldown = 0.8
StopUpMargin == 2       \* the literal 0.02 of _palm_facing_up

\* time.time() is far beyond the cooldown when the detector is built.
StopEpoch == ResumeCooldown

StopSteps == {0, 1, StopHoldTime}

StopHand(label, extended, up) == [label |-> label, extended |-> extended, up |-> up]

\* No hand, one hand, a Left and a Right hand in and out of the stop pose,
\* two hands with the same label, three hands.
StopHandLists ==
    {<<>>, <<StopHand("Left", 5, 3)>>,
     <<StopHand("Left", 5, 3), StopHand("Right", 5, 3)>>,
     <<StopHand("Right", 5, 3), StopHand("Left", 5, 2)>>,
     <<StopHand("Left", 4, 3), StopHand("Right", 5, 3)>>,
     <<StopHand("Left", 5, 3), StopHand("Left", 5, 3)>>,
     <<StopHand("Left", 5, 3), StopHand("Right", 5, 3), StopHand("Right", 5, 3)>>}

\* The geometry varies on the frames where it is read: two hands.
StopFrames ==
    {[hands |-> h, larc |-> TRUE, rarc |-> TRUE, conn |-> TRUE] : h \in StopHandLists}
    \cup {[hands |-> h, larc |-> g[1], rarc |-> g[2], conn |-> g[3]] :
            h \in {l \in StopHandLists : Len(l) = 2 /\ l[1].label # l[2].label},
            g \in {<<FALSE, TRUE, TRUE>>, <<TRUE, FALSE, FALSE>>}}

StopResumeInit ==
    /\ stop_gesture_start = None
    /\ left_hand_positions = <<>>
    /\ right_hand_positions = <<>>
    /\ last_resume_time = 0
    /\ tNow = StopEpoch
    /\ tFrame = [hands |-> <<>>, larc |-> TRUE, rarc |-> TRUE, conn |-> TRUE]
    /\ tEvent = "None"
    /\ tSince = None
    /\ tFirst = FALSE
    /\ tPrevResume = None

\* _detect_stop_gesture: exactly two hands, each with five fingers extended
\* and the palm up.
DetectStopGesture(hands) ==
    /\ Len(hands) = 2
    /\ \A i \in 1..Len(hands) : hands[i].extended = 5 /\ hands[i].up > StopUpMargin

\* The samples of a buffer that lie in the time window.
RecentSamples(positions, now) ==
    SelectSeq(positions, LAMBDA t : now - t <= CircleTimeWindow)

\* An arc test without the minimum number of samples.
DetectArcMotion_AnyCount(positions, now, shape) == shape

\* _detect_arc_motion: at least min_arc_points samples in the window, and
\* their radius and angular span those of an arc.
DetectArcMotion(positions, now, shape) ==
    Len(RecentSamples(positions, now)) >= MinArcPoints /\ shape

\* _detect_two_hand_circle_gesture: with two hands, one Left and one Right,
\* a sample is appended to each buffer, old samples are dropped, and the
\* result is that both hands make an arc and the index tips are connected.
DetectCircle(left, right, f, now) ==
    IF Len(f.hands) # 2
       \/ ~(\E i \in 1..2 : f.hands[i].label = "Left")
       \/ ~(\E i \in 1..2 : f.hands[i].label = "Right")
    THEN [left |-> left, right |-> right, found |-> FALSE]
    ELSE LET l == RecentSamples(Append(left, now), now)
             r == RecentSamples(Append(right, now), now)
         IN  [left |-> l, right |-> r,
              found |-> DetectArcMotion(l, now, f.larc) /\ DetectArcMotion(r, now, f.rarc)
                        /\ f.conn]

\* StopResumeDetector.update: the fields after the call and the result.
StopResumeStep(start, left, right, last, f, now) ==
    LET stop == DetectStopGesture(f.hands)
        fire == stop /\ start # None /\ now - start >= StopHoldTime
        start1 == IF ~stop THEN None
                  ELSE IF start = None THEN now
                  ELSE IF fire THEN None ELSE start
        left1 == IF fire THEN <<>> ELSE left
        right1 == IF fire THEN <<>> ELSE right
        ev1 == IF fire THEN "STOP" ELSE "None"
    IN  IF now - last >= ResumeCooldown
        THEN LET c == DetectCircle(left1, right1, f, now)
             IN  IF c.found
                 THEN [start |-> start1, left |-> <<>>, right |-> <<>>, last |-> now,
                       event |-> "RESUME"]
                 ELSE [start |-> start1, left |-> c.left, right |-> c.right, last |-> last,
                       event |-> ev1]
        ELSE [start |-> start1, left |-> left1, right |-> right1, last |-> last,
              event |-> ev1]

\* The stop pose as the specification words it: both hands present, each
\* with all five fingers extended and the palm facing up.
StopPoseHolds(f) ==
    /\ Len(f.hands) = 2
    /\ f.hands[1].extended = 5 /\ f.hands[1].up > StopUpMargin
    /\ f.hands[2].extended = 5 /\ f.hands[2].up > StopUpMargin

\* One call of update.  The observers follow the frames and the results
\* alone.
StopResumeUpdate ==
    \E step \in StopSteps, f \in StopFrames :
        LET now == tNow + step
            r == StopResumeStep(stop_gesture_start, left_hand_positions,
                                right_hand_positions, last_resume_time, f, now)
            since == IF ~StopPoseHolds(f) THEN None
                     ELSE IF tSince = None THEN now ELSE tSince
        IN  /\ now <= StopEpoch + MaxStopTime
            /\ Len(r.left) <= MaxSamples
            /\ tNow' = now
            /\ tFrame' = f
            /\ stop_gesture_start' = r.start
            /\ left_hand_positions' = r.left
            /\ right_hand_positions' = r.right
            /\ last_resume_time' = r.last
            /\ tEvent' = r.event
            /\ tSince' = since
            /\ tFirst' = /\ since # None /\ now - since >= StopHoldTime
                         /\ ~(tSince # None /\ tNow - tSince >= StopHoldTime)
            /\ tPrevResume' = IF tEvent = "RESUME" THEN tNow ELSE tPrevResume

(***************************************************************************)
(* BtMouseController with its threads: the connection thread runs          *)
(* _connection_loop, a sender thread calls _send_mouse.  A connection is    *)
(* known by its number; its two sockets are the control and the interrupt  *)
(* socket of that number.  Each read or write of an attribute of self is a *)
(* step of its own.                                                        *)
(***************************************************************************)
MaxAccepts == 3         \* connections accepted in a run

BtRaceInit ==
    /\ thr_connected = FALSE
    /\ thr_ccontrol = 0
    /\ thr_cinterrupt = 0
    /\ conn_pc = "test"
    /\ conn_local = 0
    /\ send_pc = "idle"
    /\ accepted = 0
    /\ ctrlClosed = {}
    /\ intrClosed = {}
    /\ hostGone = {}

\* _connection_loop, line 50: the test of self.connected; when connected
\* the thread sleeps and tests again.
ConnTest ==
    /\ conn_pc = "test"
    /\ conn_pc' = IF thr_connected THEN "test" ELSE "accept"
    /\ UNCHANGED <<thr_connected, thr_ccontrol, thr_cinterrupt, conn_local, send_pc,
                   accepted, ctrlClosed, intrClosed, hostGone>>

\* line 53: accept_connection returns the sockets of a new connection, or
\* (None, None) after an error; lines 54, 59-60.
ConnAccept ==
    /\ conn_pc = "accept"
    /\ \/ /\ accepted < MaxAccepts
          /\ accepted' = accepted + 1
          /\ conn_local' = accepted + 1
          /\ conn_pc' = "set_ctrl"
       \/ /\ UNCHANGED <<accepted, conn_local>>
          /\ conn_pc' = "test"
    /\ UNCHANGED <<thr_connected, thr_ccontrol, thr_cinterrupt, send_pc,
                   ctrlClosed, intrClosed, hostGone>>

\* line 55: self.ccontrol = ctrl
ConnSetControl ==
    /\ conn_pc = "set_ctrl"
    /\ thr_ccontrol' = conn_local
    /\ conn_pc' = "set_intr"
    /\ UNCHANGED <<thr_connected, thr_cinterrupt, conn_local, send_pc,
                   accepted, ctrlClosed, intrClosed, hostGone>>

\* line 56: self.cinterrupt = intr
ConnSetInterrupt ==
    /\ conn_pc = "set_intr"
    /\ thr_cinterrupt' = conn_local
    /\ conn_pc' = "set_conn"
    /\ UNCHANGED <<thr_connected, thr_ccontrol, conn_local, send_pc,
                   accepted, ctrlClosed, intrClosed, hostGone>>

\* line 57: self.connected = True
ConnSetConnected ==
    /\ conn_pc = "set_conn"
    /\ thr_connected' = TRUE
    /\ conn_pc' = "test"
    /\ UNCHANGED <<thr_ccontrol, thr_cinterrupt, conn_local, send_pc,
                   accepted, ctrlClosed, intrClosed, hostGone>>

\* _send_mouse, lines 65-66: a call returns at once when not connected.
SendEnter ==
    /\ send_pc = "idle"
    /\ send_pc' = IF thr_connected THEN "send" ELSE "idle"
    /\ UNCHANGED <<thr_connected, thr_ccontrol, thr_cinterrupt, conn_pc, conn_local,
                   accepted, ctrlClosed, intrClosed, hostGone>>

\* line 79: self.cinterrupt.send(data) raises when the socket is closed or
\* the host is gone.
SendReport ==
    /\ send_pc = "send"
    /\ send_pc' = IF thr_cinterrupt \in intrClosed \cup hostGone THEN "except" ELSE "idle"
    /\ UNCHANGED <<thr_connected, thr_ccontrol, thr_cinterrupt, conn_pc, conn_local,
                   accepted, ctrlClosed, intrClosed, hostGone>>

\* line 82: self.connected = False
SendSetDisconnected ==
    /\ send_pc = "except"
    /\ thr_connected' = FALSE
    /\ send_pc' = "close_ctrl"
    /\ UNCHANGED <<thr_ccontrol, thr_cinterrupt, conn_pc, conn_local,
                   accepted, ctrlClosed, intrClosed, hostGone>>

\* line 83: self.ccontrol.close(), on the socket the attribute holds now
SendCloseControl ==
    /\ send_pc = "close_ctrl"
    /\ ctrlClosed' = ctrlClosed \cup {thr_ccontrol}
    /\ send_pc' = "close_intr"
    /\ UNCHANGED <<thr_connected, thr_ccontrol, thr_cinterrupt, conn_pc, conn_local,
                   accepted, intrClosed, hostGone>>

\* line 84: self.cinterrupt.close(), on the socket the attribute holds now
SendCloseInterrupt ==
    /\ send_pc = "close_intr"
    /\ intrClosed' = intrClosed \cup {thr_cinterrupt}
    /\ send_pc' = "idle"
    /\ UNCHANGED <<thr_connected, thr_ccontrol, thr_cinterrupt, conn_pc, conn_local,
                   accepted, ctrlClosed, hostGone>>

\* The host of the latest connection goes away.
HostLeaves ==
    /\ accepted > 0
    /\ accepted \notin hostGone
    /\ hostGone' = hostGone \cup {accepted}
    /\ UNCHANGED <<thr_connected, thr_ccontrol, thr_cinterrupt, conn_pc, conn_local, send_pc,
                   accepted, ctrlClosed, intrClosed>>

(***************************************************************************)
(* Specifications, one per component: the other components stay as         *)
(* constructed.                                                            *)
(***************************************************************************)
CursorIdle == CursorInit({MainCursorConfig}, FALSE, MaxCalls)

SpecPinchInit == PinchInit /\ ScrollInit /\ CursorIdle /\ BtInit /\ HidInit /\ RelayInit /\ DispatchInit /\ ConstructInit /\ FrameInit /\ SwipeInit /\ CopyPasteInit /\ MainInit /\ PalmInit /\ StopResumeInit /\ BtRaceInit

SpecPinchNext == PinchNext /\ UNCHANGED <<scrollVars, cursorVars, btVars, hidVars, relayVars, dispatchVars, constructVars, frameVars, swipeVars, copyPasteVars, mainVars, palmVars, stopVars, raceVars>>

SpecPinch == SpecPinchInit /\ [][SpecPinchNext]_vars

SpecScrollInit == PinchInit /\ ScrollInit /\ CursorIdle /\ BtInit /\ HidInit /\ RelayInit /\ DispatchInit /\ ConstructInit /\ FrameInit /\ SwipeInit /\ CopyPasteInit /\ MainInit /\ PalmInit /\ StopResumeInit /\ BtRaceInit

SpecScrollNext == ScrollNext /\ UNCHANGED <<pinchVars, cursorVars, btVars, hidVars, relayVars, dispatchVars, constructVars, frameVars, swipeVars, copyPasteVars, mainVars, palmVars, stopVars, raceVars>>

SpecScroll == SpecScrollInit /\ [][SpecScrollNext]_vars

\* Any mapper configuration, any fingertip on every update.
SpecCursorInit ==
    PinchInit /\ ScrollInit /\ CursorInit(CursorConfigs, FALSE, MaxCalls) /\ BtInit /\ HidInit /\ RelayInit /\ DispatchInit /\ ConstructInit /\ FrameInit /\ SwipeInit /\ CopyPasteInit /\ MainInit /\ PalmInit /\ StopResumeInit /\ BtRaceInit

SpecCursorNext == CursorNext /\ UNCHANGED <<pinchVars, scrollVars, btVars, hidVars, relayVars, dispatchVars, constructVars, frameVars, swipeVars, copyPasteVars, mainVars, palmVars, stopVars, raceVars>>

SpecCursor == SpecCursorInit /\ [][SpecCursorNext]_vars

\* Any mapper configuration, the same fingertip on every update.
SpecCursorConstInit ==
    PinchInit /\ ScrollInit /\ CursorInit(CursorConfigs, TRUE, MaxConstCalls) /\ BtInit /\ HidInit /\ RelayInit /\ DispatchInit /\ ConstructInit /\ FrameInit /\ SwipeInit /\ CopyPasteInit /\ MainInit /\ PalmInit /\ StopResumeInit /\ BtRaceInit

SpecCursorConst == SpecCursorConstInit /\ [][SpecCursorNext]_vars

\* Both HID backends, driven by any sequence of calls and link events.
SpecHidInit == PinchInit /\ ScrollInit /\ CursorIdle /\ BtInit /\ HidInit /\ RelayInit /\ DispatchInit /\ ConstructInit /\ FrameInit /\ SwipeInit /\ CopyPasteInit /\ MainInit /\ PalmInit /\ StopResumeInit /\ BtRaceInit

SpecHidNext ==
    \/ BtAccept /\ UNCHANGED <<pinchVars, scrollVars, cursorVars, hidVars, relayVars, dispatchVars, constructVars, frameVars, swipeVars, copyPasteVars, mainVars, palmVars, stopVars, raceVars>>
    \/ BtLinkDrop /\ UNCHANGED <<pinchVars, scrollVars, cursorVars, hidVars, relayVars, dispatchVars, constructVars, frameVars, swipeVars, copyPasteVars, mainVars, palmVars, stopVars, raceVars>>
    \/ BtMoveTo /\ UNCHANGED <<pinchVars, scrollVars, cursorVars, hidVars, relayVars, dispatchVars, constructVars, frameVars, swipeVars, copyPasteVars, mainVars, palmVars, stopVars, raceVars>>
    \/ BtLeftDown /\ UNCHANGED <<pinchVars, scrollVars, cursorVars, hidVars, relayVars, dispatchVars, constructVars, frameVars, swipeVars, copyPasteVars, mainVars, palmVars, stopVars, raceVars>>
    \/ BtLeftUp /\ UNCHANGED <<pinchVars, scrollVars, cursorVars, hidVars, relayVars, dispatchVars, constructVars, frameVars, swipeVars, copyPasteVars, mainVars, palmVars, stopVars, raceVars>>
    \/ HidAccept /\ UNCHANGED <<pinchVars, scrollVars, cursorVars, btVars, relayVars, dispatchVars, constructVars, frameVars, swipeVars, copyPasteVars, mainVars, palmVars, stopVars, raceVars>>
    \/ HidLinkDrop /\ UNCHANGED <<pinchVars, scrollVars, cursorVars, btVars, relayVars, dispatchVars, constructVars, frameVars, swipeVars, copyPasteVars, mainVars, palmVars, stopVars, raceVars>>
    \/ HidMoveTo /\ UNCHANGED <<pinchVars, scrollVars, cursorVars, btVars, relayVars, dispatchVars, constructVars, frameVars, swipeVars, copyPasteVars, mainVars, palmVars, stopVars, raceVars>>

SpecHid == SpecHidInit /\ [][SpecHidNext]_vars

\* The relay with its clients.
SpecRelayInit == PinchInit /\ ScrollInit /\ CursorIdle /\ BtInit /\ HidInit /\ RelayInit /\ DispatchInit /\ ConstructInit /\ FrameInit /\ SwipeInit /\ CopyPasteInit /\ MainInit /\ PalmInit /\ StopResumeInit /\ BtRaceInit

SpecRelayNext ==
    \/ \E p \in Peers : \E msg \in ClientMsgs(p) :
           ClientSend(p, msg) /\ UNCHANGED <<pinchVars, scrollVars, cursorVars, btVars, hidVars, dispatchVars, constructVars, frameVars, swipeVars, copyPasteVars, mainVars, palmVars, stopVars, raceVars>>
    \/ \E p \in Peers :
           ClientClose(p) /\ UNCHANGED <<pinchVars, scrollVars, cursorVars, btVars, hidVars, dispatchVars, constructVars, frameVars, swipeVars, copyPasteVars, mainVars, palmVars, stopVars, raceVars>>
    \/ \E p \in Peers :
           RelayFirst(p) /\ UNCHANGED <<pinchVars, scrollVars, cursorVars, btVars, hidVars, dispatchVars, constructVars, frameVars, swipeVars, copyPasteVars, mainVars, palmVars, stopVars, raceVars>>
    \/ \E p \in Peers :
           RelayLoop(p) /\ UNCHANGED <<pinchVars, scrollVars, cursorVars, btVars, hidVars, dispatchVars, constructVars, frameVars, swipeVars, copyPasteVars, mainVars, palmVars, stopVars, raceVars>>
    \/ \E p \in Peers :
           RelayResume(p) /\ UNCHANGED <<pinchVars, scrollVars, cursorVars, btVars, hidVars, dispatchVars, constructVars, frameVars, swipeVars, copyPasteVars, mainVars, palmVars, stopVars, raceVars>>

SpecRelay == SpecRelayInit /\ [][SpecRelayNext]_vars

\* The dispatcher with its producer and its consumer thread.
SpecDispatchInit == PinchInit /\ ScrollInit /\ CursorIdle /\ BtInit /\ HidInit /\ RelayInit /\ DispatchInit /\ ConstructInit /\ FrameInit /\ SwipeInit /\ CopyPasteInit /\ MainInit /\ PalmInit /\ StopResumeInit /\ BtRaceInit

SpecDispatchNext ==
    \/ Start /\ UNCHANGED <<pinchVars, scrollVars, cursorVars, btVars, hidVars, relayVars, constructVars, frameVars, swipeVars, copyPasteVars, mainVars, palmVars, stopVars, raceVars>>
    \/ \E e \in DispatchEvents :
           Emit(e) /\ UNCHANGED <<pinchVars, scrollVars, cursorVars, btVars, hidVars, relayVars, constructVars, frameVars, swipeVars, copyPasteVars, mainVars, palmVars, stopVars, raceVars>>
    \/ Stop /\ UNCHANGED <<pinchVars, scrollVars, cursorVars, btVars, hidVars, relayVars, constructVars, frameVars, swipeVars, copyPasteVars, mainVars, palmVars, stopVars, raceVars>>
    \/ RunTest /\ UNCHANGED <<pinchVars, scrollVars, cursorVars, btVars, hidVars, relayVars, constructVars, frameVars, swipeVars, copyPasteVars, mainVars, palmVars, stopVars, raceVars>>
    \/ RunGet /\ UNCHANGED <<pinchVars, scrollVars, cursorVars, btVars, hidVars, relayVars, constructVars, frameVars, swipeVars, copyPasteVars, mainVars, palmVars, stopVars, raceVars>>
    \/ ProcessReturn /\ UNCHANGED <<pinchVars, scrollVars, cursorVars, btVars, hidVars, relayVars, constructVars, frameVars, swipeVars, copyPasteVars, mainVars, palmVars, stopVars, raceVars>>
    \/ ProcessRaise /\ UNCHANGED <<pinchVars, scrollVars, cursorVars, btVars, hidVars, relayVars, constructVars, frameVars, swipeVars, copyPasteVars, mainVars, palmVars, stopVars, raceVars>>

SpecDispatch == SpecDispatchInit /\ [][SpecDispatchNext]_vars

\* Objects built with any parameters and then updated.
SpecConstructInit == PinchInit /\ ScrollInit /\ CursorIdle /\ BtInit /\ HidInit /\ RelayInit /\ DispatchInit /\ ConstructInit /\ FrameInit /\ SwipeInit /\ CopyPasteInit /\ MainInit /\ PalmInit /\ StopResumeInit /\ BtRaceInit

SpecConstructNext ==
    \/ \E pt \in KThresholds, rt \in KThresholds :
           NewPinch(pt, rt)
               /\ UNCHANGED <<pinchVars, scrollVars, cursorVars, btVars, hidVars, relayVars, dispatchVars, frameVars, swipeVars, copyPasteVars, mainVars, palmVars, stopVars, raceVars>>
    \/ \E x0 \in KRoiBounds, x1 \in KRoiBounds, y0 \in KRoiBounds, y1 \in KRoiBounds :
           NewCursor(x0, x1, y0, y1)
               /\ UNCHANGED <<pinchVars, scrollVars, cursorVars, btVars, hidVars, relayVars, dispatchVars, frameVars, swipeVars, copyPasteVars, mainVars, palmVars, stopVars, raceVars>>
    \/ \E d \in PinchDists, step \in {0, HoldDelay} :
           UsePinch(d, step)
               /\ UNCHANGED <<pinchVars, scrollVars, cursorVars, btVars, hidVars, relayVars, dispatchVars, frameVars, swipeVars, copyPasteVars, mainVars, palmVars, stopVars, raceVars>>
    \/ UseCursor /\ UNCHANGED <<pinchVars, scrollVars, cursorVars, btVars, hidVars, relayVars, dispatchVars, frameVars, swipeVars, copyPasteVars, mainVars, palmVars, stopVars, raceVars>>

SpecConstruct == SpecConstructInit /\ [][SpecConstructNext]_vars

\* The frame detector on any sequence of tracker results.
SpecFrameInit == PinchInit /\ ScrollInit /\ CursorIdle /\ BtInit /\ HidInit /\ RelayInit /\ DispatchInit /\ ConstructInit /\ FrameInit /\ SwipeInit /\ CopyPasteInit /\ MainInit /\ PalmInit /\ StopResumeInit /\ BtRaceInit

SpecFrameNext ==
    FrameUpdate /\ UNCHANGED <<pinchVars, scrollVars, cursorVars, btVars, hidVars, relayVars, dispatchVars, constructVars, swipeVars, copyPasteVars, mainVars, palmVars, stopVars, raceVars>>

SpecFrame == SpecFrameInit /\ [][SpecFrameNext]_vars

\* The swipe detector on any sequence of hands.
SpecSwipeInit == PinchInit /\ ScrollInit /\ CursorIdle /\ BtInit /\ HidInit /\ RelayInit /\ DispatchInit /\ ConstructInit /\ FrameInit /\ SwipeInit /\ CopyPasteInit /\ MainInit /\ PalmInit /\ StopResumeInit /\ BtRaceInit

SpecSwipeNext ==
    SwipeUpdate /\ UNCHANGED <<pinchVars, scrollVars, cursorVars, btVars, hidVars, relayVars, dispatchVars, constructVars, frameVars, copyPasteVars, mainVars, palmVars, stopVars, raceVars>>

SpecSwipe == SpecSwipeInit /\ [][SpecSwipeNext]_vars

\* The copy and paste handler on any sequence of classified hands.
SpecCopyPasteInit == PinchInit /\ ScrollInit /\ CursorIdle /\ BtInit /\ HidInit /\ RelayInit /\ DispatchInit /\ ConstructInit /\ FrameInit /\ SwipeInit /\ CopyPasteInit /\ MainInit /\ PalmInit /\ StopResumeInit /\ BtRaceInit

SpecCopyPasteNext ==
    ProcessLandmarks /\ UNCHANGED <<pinchVars, scrollVars, cursorVars, btVars, hidVars, relayVars, dispatchVars, constructVars, frameVars, swipeVars, mainVars, palmVars, stopVars, raceVars>>

SpecCopyPaste == SpecCopyPasteInit /\ [][SpecCopyPasteNext]_vars

\* main() with the dispatcher's consumer thread.
SpecMainInit == PinchInit /\ ScrollInit /\ CursorIdle /\ BtInit /\ HidInit /\ RelayInit /\ DispatchInit /\ ConstructInit /\ FrameInit /\ SwipeInit /\ CopyPasteInit /\ MainInit /\ PalmInit /\ StopResumeInit /\ BtRaceInit

SpecMainNext ==
    \/ MainSetup /\ UNCHANGED <<pinchVars, scrollVars, cursorVars, btVars, hidVars, relayVars, constructVars, frameVars, swipeVars, copyPasteVars, palmVars, stopVars, raceVars>>
    \/ MainNoHand /\ UNCHANGED <<pinchVars, scrollVars, cursorVars, btVars, hidVars, relayVars, constructVars, frameVars, swipeVars, copyPasteVars, dispatchVars, palmVars, stopVars, raceVars>>
    \/ MainHandFrame /\ UNCHANGED <<btVars, hidVars, relayVars, constructVars, frameVars, swipeVars, copyPasteVars, palmVars, stopVars, raceVars>>
    \/ MainCameraEnd /\ UNCHANGED <<pinchVars, scrollVars, cursorVars, btVars, hidVars, relayVars, constructVars, frameVars, swipeVars, copyPasteVars, palmVars, stopVars, raceVars>>
    \/ RunTest /\ UNCHANGED <<pinchVars, scrollVars, cursorVars, btVars, hidVars, relayVars, constructVars, frameVars, swipeVars, copyPasteVars, mainVars, palmVars, stopVars, raceVars>>
    \/ RunGet /\ UNCHANGED <<pinchVars, scrollVars, cursorVars, btVars, hidVars, relayVars, constructVars, frameVars, swipeVars, copyPasteVars, mainVars, palmVars, stopVars, raceVars>>
    \/ ProcessReturn /\ UNCHANGED <<pinchVars, scrollVars, cursorVars, btVars, hidVars, relayVars, constructVars, frameVars, swipeVars, copyPasteVars, mainVars, palmVars, stopVars, raceVars>>
    \/ ProcessRaise /\ UNCHANGED <<pinchVars, scrollVars, cursorVars, btVars, hidVars, relayVars, constructVars, frameVars, swipeVars, copyPasteVars, mainVars, palmVars, stopVars, raceVars>>

SpecMain == SpecMainInit /\ [][SpecMainNext]_vars

\* The palm arrow detector on any sequence of tracker results.
SpecPalmInit == PinchInit /\ ScrollInit /\ CursorIdle /\ BtInit /\ HidInit /\ RelayInit /\ DispatchInit /\ ConstructInit /\ FrameInit /\ SwipeInit /\ CopyPasteInit /\ MainInit /\ PalmInit /\ StopResumeInit /\ BtRaceInit

SpecPalmNext ==
    PalmUpdate /\ UNCHANGED <<pinchVars, scrollVars, cursorVars, btVars, hidVars, relayVars, dispatchVars, constructVars, frameVars, swipeVars, copyPasteVars, mainVars, stopVars, raceVars>>

SpecPalm == SpecPalmInit /\ [][SpecPalmNext]_vars

\* The stop and resume detector on any sequence of tracker results.
SpecStopResumeInit == PinchInit /\ ScrollInit /\ CursorIdle /\ BtInit /\ HidInit /\ RelayInit /\ DispatchInit /\ ConstructInit /\ FrameInit /\ SwipeInit /\ CopyPasteInit /\ MainInit /\ PalmInit /\ StopResumeInit /\ BtRaceInit

SpecStopResumeNext ==
    StopResumeUpdate /\ UNCHANGED <<pinchVars, scrollVars, cursorVars, btVars, hidVars, relayVars, dispatchVars, constructVars, frameVars, swipeVars, copyPasteVars, mainVars, palmVars, raceVars>>

SpecStopResume == SpecStopResumeInit /\ [][SpecStopResumeNext]_vars

\* The connection thread and a sender thread of BtMouseController.
SpecBtRaceInit == PinchInit /\ ScrollInit /\ CursorIdle /\ BtInit /\ HidInit /\ RelayInit /\ DispatchInit /\ ConstructInit /\ FrameInit /\ SwipeInit /\ CopyPasteInit /\ MainInit /\ PalmInit /\ StopResumeInit /\ BtRaceInit

SpecBtRaceNext ==
    \/ ConnTest /\ UNCHANGED <<pinchVars, scrollVars, cursorVars, btVars, hidVars, relayVars, dispatchVars, constructVars, frameVars, swipeVars, copyPasteVars, mainVars, palmVars, stopVars>>
    \/ ConnAccept /\ UNCHANGED <<pinchVars, scrollVars, cursorVars, btVars, hidVars, relayVars, dispatchVars, constructVars, frameVars, swipeVars, copyPasteVars, mainVars, palmVars, stopVars>>
    \/ ConnSetControl /\ UNCHANGED <<pinchVars, scrollVars, cursorVars, btVars, hidVars, relayVars, dispatchVars, constructVars, frameVars, swipeVars, copyPasteVars, mainVars, palmVars, stopVars>>
    \/ ConnSetInterrupt /\ UNCHANGED <<pinchVars, scrollVars, cursorVars, btVars, hidVars, relayVars, dispatchVars, constructVars, frameVars, swipeVars, copyPasteVars, mainVars, palmVars, stopVars>>
    \/ ConnSetConnected /\ UNCHANGED <<pinchVars, scrollVars, cursorVars, btVars, hidVars, relayVars, dispatchVars, constructVars, frameVars, swipeVars, copyPasteVars, mainVars, palmVars, stopVars>>
    \/ SendEnter /\ UNCHANGED <<pinchVars, scrollVars, cursorVars, btVars, hidVars, relayVars, dispatchVars, constructVars, frameVars, swipeVars, copyPasteVars, mainVars, palmVars, stopVars>>
    \/ SendReport /\ UNCHANGED <<pinchVars, scrollVars, cursorVars, btVars, hidVars, relayVars, dispatchVars, constructVars, frameVars, swipeVars, copyPasteVars, mainVars, palmVars, stopVars>>
    \/ SendSetDisconnected /\ UNCHANGED <<pinchVars, scrollVars, cursorVars, btVars, hidVars, relayVars, dispatchVars, constructVars, frameVars, swipeVars, copyPasteVars, mainVars, palmVars, stopVars>>
    \/ SendCloseControl /\ UNCHANGED <<pinchVars, scrollVars, cursorVars, btVars, hidVars, relayVars, dispatchVars, constructVars, frameVars, swipeVars, copyPasteVars, mainVars, palmVars, stopVars>>
    \/ SendCloseInterrupt /\ UNCHANGED <<pinchVars, scrollVars, cursorVars, btVars, hidVars, relayVars, dispatchVars, constructVars, frameVars, swipeVars, copyPasteVars, mainVars, palmVars, stopVars>>
    \/ HostLeaves /\ UNCHANGED <<pinchVars, scrollVars, cursorVars, btVars, hidVars, relayVars, dispatchVars, constructVars, frameVars, swipeVars, copyPasteVars, mainVars, palmVars, stopVars>>

SpecBtRace == SpecBtRaceInit /\ [][SpecBtRaceNext]_vars

C9_ConstantInputConverges ==
    cPinned =>
        \A i \in 1..Len(cHist) : \A j \in i..Len(cHist) :
            cHist[i] = cHist[j] => \A k \in i..j : cHist[k] = cHist[i]

\* C6: update returns no SCROLL on a frame where the scroll pose holds but did
\* not hold on the update before it (the very first update included).
C6_NoScrollOnEntry ==
    (sCalled /\ ScrollPoseHolds(sFrame) /\ ~sPrevPose) => sEvents = <<>>

\* The pose is entered again after an update without it.
C6_Witness ==
    /\ sCalled /\ ScrollPoseHolds(sFrame) /\ ~sPrevPose
    /\ last_y_position = 711

\* C7: after each update is_scrolling() is true iff the scroll pose holds on
\* that frame, whatever the earlier frames were, and the reference y is unset
\* exactly when is_scrolling() is false.
C7_ScrollingIffPose ==
    sCalled =>
        /\ is_scrolling <=> ScrollPoseHolds(sFrame)
        /\ (last_y_position = None) <=> ~is_scrolling

\* The pose held on the update before and is lost on this one.
C7_Witness ==
    sCalled /\ sPrevPose /\ ~ScrollPoseHolds(sFrame) /\ ~is_scrolling

\* C1: PINCH_END is never emitted without an earlier PINCH_START in the same
\* pinch cycle (since the detector was last idle), and a closed cycle holds
\* either no PINCH_START and no PINCH_END, or exactly one of each, start first.
C1_PinchBalanced ==
    /\ \A i \in 1..Len(pCycle) :
          pCycle[i] = "PINCH_END" =>
              \E j \in 1..(i - 1) : pCycle[j] = "PINCH_START"
    /\ CountOf(pCycle, "PINCH_START") <= 1
    /\ CountOf(pCycle, "PINCH_END") <= CountOf(pCycle, "PINCH_START")
    /\ PinchIdle => CountOf(pCycle, "PINCH_START") = CountOf(pCycle, "PINCH_END")

\* A drag cycle that has closed: start, then end, and the detector idle again.
C1_Witness == PinchIdle /\ pCycle = <<"PINCH_START", "PINCH_END">>

\* C10: a quick pinch (first below pinch_threshold at pT0, never below it at
\* a time >= pT0 + hold_delay, first above release_threshold now) emits
\* exactly one CLICK, on the releasing update, and no PINCH_START or
\* PINCH_END when now - pT0 > 0.05; it emits nothing when now - pT0 <= 0.05;
\* either way the detector is idle afterwards.
C10_QuickPinch ==
    (pClosed /\ ~pLate) =>
        /\ PinchIdle
        /\ pCycle = (IF pNow - pT0 > ClickDebounce THEN <<"CLICK">> ELSE <<>>)
        /\ pEvents = pCycle

\* A quick pinch released two ticks (0.1 s) after it began: one CLICK.
C10_Witness ==
    /\ pClosed /\ ~pLate
    /\ pNow - pT0 = 2
    /\ pEvents = <<"CLICK">>

\* C11: a sustained pinch (first below pinch_threshold at pT0, below it again
\* at a time >= pT0 + hold_delay, no frame above release_threshold between)
\* emits PINCH_START exactly once, on the first such frame: the cycle's events
\* are empty before that frame and <<PINCH_START>> from it on; PINCH_END is
\* emitted on the first later frame above release_threshold; the cycle holds
\* no CLICK.
C11_SustainedPinch ==
    /\ (pT0 # None /\ ~pLate /\ ~pClosed) => (pCycle = <<>> /\ ~dragging)
    /\ (pLate /\ ~pClosed) => (pCycle = <<"PINCH_START">> /\ dragging)
    /\ (pLate /\ pClosed) =>
          /\ pCycle = <<"PINCH_START", "PINCH_END">>
          /\ pEvents = <<"PINCH_END">>
          /\ PinchIdle

\* A pinch held at least hold_delay and then released: the release reports
\* PINCH_END.
C11_Witness ==
    /\ pLate /\ pClosed
    /\ pNow - pT0 >= HoldDelay
    /\ pEvents = <<"PINCH_END">>

RECURSIVE SumAt(_, _)
\* The sum of field i over the reports of a call.
SumAt(s, i) == IF s = <<>> THEN 0 ELSE Head(s)[i] + SumAt(Tail(s), i)

RECURSIVE MovingAt(_, _)
\* The number of reports of a call whose field i is non-zero.
MovingAt(s, i) ==
    IF s = <<>> THEN 0 ELSE (IF Head(s)[i] # 0 THEN 1 ELSE 0) + MovingAt(Tail(s), i)

\* ceil(n / HidDeltaMax) for n >= 0
ReportsFor(n) == (n + HidDeltaMax - 1) \div HidDeltaMax

\* The reports sent move from one point to another in steps of at most one byte.
Stepwise(sent, from, to, ix, iy) ==
    LET dx == to[1] - from[1]
        dy == to[2] - from[2]
    IN  /\ SumAt(sent, ix) = dx
        /\ SumAt(sent, iy) = dy
        /\ MovingAt(sent, ix) = ReportsFor(Abs(dx))
        /\ MovingAt(sent, iy) = ReportsFor(Abs(dy))
        /\ (Abs(dx) <= HidDeltaMax /\ Abs(dy) <= HidDeltaMax /\ (dx # 0 \/ dy # 0))
               => Len(sent) = 1

\* C8: on a connected HID backend, move_to(x0, y0) followed by move_to(x1, y1)
\* sends ceil(|x1 - x0| / 127) reports with a non-zero dx (and likewise dy),
\* every delta within [-127, 127], the deltas summing to the displacement, and
\* exactly one report when both deltas fit in a byte and are not both zero.
C8_MoveToStepwise ==
    /\ (btOp = "move_to" /\ btWasInit /\ btWasUp)
           => Stepwise(btSent, btFrom, btArg, 2, 3)
    /\ (hidMoved /\ hidWasUp)
           => Stepwise(hidSent, hidFrom, <<hid_last_x, hid_last_y>>, 2, 3)

\* The number of times the relay forwarded message m to connection q.
Forwards(q, m) == CountOf(out[q], [type |-> "FWD", id |-> m])

\* A handled message of a joined peer that is valid JSON and not a PING.
Forwardable(m) ==
    /\ mInfo[m].state = "done"
    /\ mInfo[m].joined
    /\ mInfo[m].kind \in {"JOIN", "DATA", "NONOBJ"}

\* C2: a valid-JSON, non-PING message of a joined peer is delivered exactly
\* once to each other peer that is live in the sender's session while the
\* relay handles it, and neither to the sender nor to a peer of another session.
C2_ForwardExactlyOnce ==
    \A m \in MsgIds : Forwardable(m) =>
        \A q \in Peers :
            /\ q \in mInfo[m].live => Forwards(q, m) = 1
            /\ (q = m[1] \/ session_id[q] # session_id[m[1]]) => Forwards(q, m) = 0

\* C3: SESSIONS has a key for a session id iff a connection whose handler is
\* still running is a member of that session; no key maps to an empty set.
C3_SessionsExact ==
    \A sid \in SessionIds :
        (sid \in DOMAIN SESSIONS) <=>
            (\E q \in Peers : Running(q) /\ session_id[q] = sid /\ sid \in DOMAIN SESSIONS
                                /\ q \in SESSIONS[sid])

\* C12: a first message that is not a JOIN object with a non-empty session_id
\* (another type, no session_id, text that is not JSON, JSON that is not an
\* object), taken by the handler of an open connection, is answered with the
\* ERROR frame 'First message must be JOIN with session_id'; the connection
\* is closed and is in no session.
C12_FirstMessageRejected ==
    [][\A p \in Peers :
          (/\ pc[p] = "new" /\ pc'[p] # "new"
           /\ inbox[p] # <<>>
           /\ sockOpen[p]
           /\ (Head(inbox[p]).kind # "JOIN" \/ Head(inbox[p]).sid = NoSession))
          => /\ out'[p] = Append(out[p], [type |-> "ERROR_JOIN", id |-> NoMsg])
             /\ ~sockOpen'[p]
             /\ pc'[p] = "done"
             /\ \A k \in DOMAIN SESSIONS' : p \notin SESSIONS'[k]]_vars

\* A handler that ends leaves its connection in no session set.
ClosedPeerRemoved ==
    \A p \in Peers :
        (pc[p] # "done" /\ pc'[p] = "done") =>
            \A k \in DOMAIN SESSIONS' : p \notin SESSIONS'[k]

\* A broadcast that ends leaves no peer a send to which failed in the set.
DeadPeerRemoved ==
    \A p \in Peers :
        (pc[p] = "bcast" /\ pc'[p] = "loop" /\ session_id[p] \in DOMAIN SESSIONS') =>
            SESSIONS'[session_id[p]] \cap iter[p].dead = {}

\* A step that removes a member from a set and leaves the set empty deletes
\* the entry.
EmptiedSetDeleted ==
    \A sid \in DOMAIN SESSIONS :
        (sid \in DOMAIN SESSIONS' /\ SESSIONS'[sid] # SESSIONS[sid]) =>
            SESSIONS'[sid] # {}

\* A forward goes to a member of a session set only.
ForwardToMember ==
    \A q \in Peers :
        (Len(out'[q]) > Len(out[q]) /\ out'[q][Len(out'[q])].type = "FWD") =>
            \E k \in DOMAIN SESSIONS : q \in SESSIONS[k]

\* C13: a peer whose socket closed is out of its session set when its handler
\* ends, a peer a send to which failed is out of the set when that broadcast
\* ends, the step that empties a set deletes the entry, and a forward never
\* goes to a peer that is in no set.
C13_RemovedPeers ==
    [][ClosedPeerRemoved /\ DeadPeerRemoved /\ EmptiedSetDeleted /\ ForwardToMember]_vars

\* The step in which the receive loop of p, its connection open, takes a
\* message of the given kind.
LoopTakes(p, kind) ==
    /\ pc[p] = "loop"
    /\ inbox[p] # <<>>
    /\ Head(inbox[p]).kind = kind
    /\ inbox'[p] = Tail(inbox[p])
    /\ sockOpen[p]

\* C14: text that is not JSON from a joined peer is answered with the ERROR
\* frame 'Invalid JSON' to that peer alone; no other connection gets a frame,
\* the session table is unchanged and the handler is back in its receive loop.
C14_InvalidJson ==
    [][\A p \in Peers :
          LoopTakes(p, "MALFORMED") =>
              /\ out' = [out EXCEPT ![p] = Append(@, [type |-> "ERROR_JSON", id |-> NoMsg])]
              /\ SESSIONS' = SESSIONS
              /\ pc'[p] = "loop"
              /\ sockOpen'[p] /\ ~crashed'[p]]_vars

\* A joined peer sent invalid text and then another message with a second
\* peer live in its session: both were handled, the first answered with one
\* ERROR frame.
C14_Witness ==
    \E p \in Peers :
        /\ mInfo[<<p, 2>>].kind = "MALFORMED"
        /\ mInfo[<<p, 2>>].joined /\ mInfo[<<p, 2>>].state = "done"
        /\ mInfo[<<p, 3>>].joined /\ mInfo[<<p, 3>>].state = "done"
        /\ CountOf(out[p], [type |-> "ERROR_JSON", id |-> NoMsg]) = 1
        /\ \E q \in Peers \ {p} :
               /\ session_id[q] = session_id[p] /\ Running(q) /\ sockOpen[q]
               /\ Forwards(q, <<p, 2>>) = 0

\* C15: a PING from a joined peer is answered with exactly one PONG to that
\* peer; no other connection gets a frame.
C15_PingPong ==
    [][\A p \in Peers :
          LoopTakes(p, "PING") =>
              out' = [out EXCEPT ![p] = Append(@, [type |-> "PONG", id |-> NoMsg])]]_vars

\* A joined peer's PING was handled with a second peer live in its session:
\* one PONG to the sender, the other peer holds its JOINED frame only.
C15_Witness ==
    \E p \in Peers :
        /\ mInfo[<<p, 2>>].kind = "PING"
        /\ mInfo[<<p, 2>>].joined /\ mInfo[<<p, 2>>].state = "done"
        /\ out[p] = <<[type |-> "JOINED", id |-> NoMsg], [type |-> "PONG", id |-> NoMsg]>>
        /\ \E q \in Peers \ {p} :
               /\ session_id[q] = session_id[p] /\ Running(q) /\ sockOpen[q]
               /\ out[q] = <<[type |-> "JOINED", id |-> NoMsg]>>

\* C16: the consumer makes one backend call at a time and in emit order: every
\* call ends before the next begins, and the calls follow the order of the
\* emit calls of their events.
C16_EmitOrder ==
    /\ \A k \in 1..Len(evLog) :
          IF k % 2 = 1 THEN evLog[k].at = "begin"
          ELSE evLog[k].at \in {"end", "raise"} /\ evLog[k].n = evLog[k - 1].n
    /\ \A i, j \in 1..Len(evLog) : i < j => evLog[i].n <= evLog[j].n
    /\ \A i, j \in 1..Len(evTaken) : i < j => evTaken[i].n < evTaken[j].n

\* The call of the first event has ended and the call of the second has begun
\* while the third event waits in the queue.
C16_Witness ==
    /\ Len(evLog) = 3
    /\ evLog[1].n = 1 /\ evLog[3].n = 2
    /\ ev_pc = "call"
    /\ ev_q # <<>> /\ Head(ev_q).n = 3

\* The backend call the dispatcher's table gives each event variant.
SpecifiedCall(e) ==
    IF e.tag = "MOVE" THEN [op |-> "move_to", a |-> e.a, b |-> e.b]
    ELSE IF e.tag = "CLICK" THEN [op |-> "click_left", a |-> 0, b |-> 0]
    ELSE IF e.tag = "PINCH_START" THEN [op |-> "left_down", a |-> 0, b |-> 0]
    ELSE IF e.tag = "PINCH_END" THEN [op |-> "left_up", a |-> 0, b |-> 0]
    ELSE IF e.tag = "SCROLL" THEN [op |-> "scroll", a |-> 0, b |-> e.a]
    ELSE IF e.tag = "SCREENSHOT" THEN [op |-> "screenshot", a |-> 0, b |-> 0]
    ELSE IF e.tag = "CONTROL_LEFT" THEN [op |-> "control_left", a |-> 0, b |-> 0]
    ELSE IF e.tag = "CONTROL_RIGHT" THEN [op |-> "control_right", a |-> 0, b |-> 0]
    ELSE IF e.tag = "COPY" THEN [op |-> "copy", a |-> 0, b |-> 0]
    ELSE [op |-> "paste", a |-> 0, b |-> 0]

\* C17: every event the consumer took from the queue led to the backend call
\* specified for its variant; none was discarded.
C17_EveryVariantCalls ==
    \A i \in 1..Len(evTaken) :
        \E k \in 1..Len(evLog) :
            /\ evLog[k].at = "begin"
            /\ evLog[k].n = evTaken[i].n
            /\ evLog[k].call = SpecifiedCall(evTaken[i].e)

\* C18: a consumer that has terminated has taken from the queue every event
\* that emit enqueued before stop() was called.
C18_StopDrains ==
    ev_pc = "done" =>
        \A n \in 1..evStopAt : \E i \in 1..Len(evTaken) : evTaken[i].n = n

\* C19: when stop() finds the left button held by a left_down, the consumer
\* does not terminate with the button still held.
C19_LeftUpOnShutdown ==
    (ev_pc = "done" /\ evHeldAtStop) => ~mouse_left

\* C20: the queue stays within a fixed capacity (any capacity below the number
\* of emit calls of a run is covered by the largest of them) and a put never
\* blocks.
C20_BoundedQueue ==
    /\ Len(ev_q) < MaxEmits
    /\ ~PutBlocks(ev_q)

\* C29: an update with pinch_threshold <= distance <= release_threshold
\* returns no event and leaves the press start time and the dragging flag as
\* they were, whatever they were and whatever the clock reads.
C29_Hysteresis ==
    [][(PinchThreshold <= pD' /\ pD' <= ReleaseThreshold) =>
          /\ pEvents' = <<>>
          /\ pinch_start_t' = pinch_start_t
          /\ dragging' = dragging]_vars

\* A press that stayed in the band beyond hold_delay: still a press, no drag.
C29_Witness ==
    /\ pD = 35
    /\ pinch_start_t # None /\ ~dragging
    /\ pNow - pinch_start_t > HoldDelay
    /\ pEvents = <<>>

\* C30: on a frame in the scroll pose after the first, update returns
\* SCROLL(-dy * sensitivity) iff |dy| > min_scroll_delta and
\* |dy * sensitivity| > 0.3, dy measured from the mean y at pose entry or at
\* the last SCROLL (frames that return nothing do not move it); the amount is
\* positive exactly when the fingers moved up.
C30_ScrollFromReference ==
    [][(sRef # None /\ ScrollPoseHolds(sFrame')) =>
          /\ sEvents' = ScrollDue(sRef, sFrame'.it + sFrame'.mt)
          /\ \A i \in 1..Len(sEvents') :
                 (sEvents'[i][2] > 0) <=> (sFrame'.it + sFrame'.mt < sRef)]_vars

\* C27: no PinchDetector with release_threshold < pinch_threshold and no
\* CursorMapper with a ROI maximum at or below its minimum is ever built and
\* then updated.
C27_NoMisconfiguredObject ==
    /\ kPinch.used => kPinch.release_threshold >= kPinch.pinch_threshold
    /\ kCursor.used =>
          /\ kCursor.roi_x_max > kCursor.roi_x_min
          /\ kCursor.roi_y_max > kCursor.roi_y_min

\* C26: PinchDetector.update is a function of the detector's state and the
\* landmarks alone: in any state, the same distance gives the same events and
\* the same next state whenever the call is made, and the same distance
\* applied a second time returns nothing and changes nothing.
C26_DeterministicReplay ==
    \A d \in PinchDists : \A t1, t2 \in pNow..MaxTime :
        LET r1 == PinchStep(pinch_start_t, dragging, d, t1)
            r2 == PinchStep(pinch_start_t, dragging, d, t2)
            again == PinchStep(r1.start, r1.drag, d, Max2(t1, t2))
        IN  /\ r1.events = r2.events /\ r1.drag = r2.drag
            /\ again.events = <<>>
            /\ again.start = r1.start /\ again.drag = r1.drag

\* C23: SCREENSHOT is returned only on a frame with exactly two hands, a Left
\* and a Right, both in the frame pose on every update since a pose start at
\* least activation_time earlier that lies outside the cooldown of the
\* SCREENSHOT before; two SCREENSHOTs are at least cooldown_s apart.
C23_ScreenshotHeld ==
    fEvents = <<"SCREENSHOT">> =>
        /\ FramePoseHolds(fResults)
        /\ fCountFrom # None /\ fNow - fCountFrom >= ActivationTime
        /\ fPrevShot # None =>
              /\ fNow - fPrevShot >= FrameCooldown
              /\ fCountFrom - fPrevShot >= FrameCooldown

\* A second SCREENSHOT, after the cooldown of the first.
C23_Witness ==
    /\ fEvents = <<"SCREENSHOT">>
    /\ fPrevShot # None

\* C24: SwipeDetector returns at most one CONTROL_LEFT or CONTROL_RIGHT per
\* activation of the four-finger pose: after a result it returns nothing
\* until a frame on which the pose does not hold.
C24_OnePerActivation == wEmitted <= 1

\* C25: on both HID backends a report issued while the backend is
\* disconnected or the host is gone is dropped, and a backend that is not
\* connected is accepting, so that a host that connects again is taken up.
C25_ReconnectAfterFailure ==
    /\ (btOp \in {"move_to", "left_down", "left_up"} /\ ~btWasUp) => btSent = <<>>
    /\ (hidMoved /\ ~hidWasUp) => hidSent = <<>>
    /\ ~hid_connected => hidListening

\* C28: a backend call that raises costs only its own event: the consumer
\* thread keeps running until stop() is called, so the events emitted after
\* the failure are still taken and applied.
C28_FailureDropsOneEvent ==
    ~ev_stop => ev_pc \in {"new", "test", "get", "call"}

\* C21: no gesture machine performs a keyboard or mouse action itself: the
\* copy and paste handler makes no key chord on the thread of its caller,
\* Copy and Paste reach the host only as events of the dispatcher, whose
\* consumer thread makes every backend call.
C21_OnlyConsumerActs == cpHotkey = "none"

C32_HoldBeforeAction ==
    /\ cpHotkey # "none" =>
          /\ cpGesture # "None"
          /\ cpHotkey = (IF cpGesture = "copy" THEN "command+c" ELSE "command+v")
          /\ cpSince # None /\ cpNow - cpSince >= HoldDuration
    /\ (cp_active_gesture = "None") <=> (cp_gesture_start_time = None)

\* Paste is triggered exactly HOLD_DURATION after a run of paste frames that
\* began after the first call.
C32_Witness ==
    /\ cpHotkey = "command+v"
    /\ cpSince > CopyEpoch + 1
    /\ cpNow - cpSince = HoldDuration

\* C33: PalmArrowDetector returns CONTROL_LEFT (CONTROL_RIGHT) only when the
\* left (right) hand was seen in the tight palm-up pose on every frame of the
\* preceding hold_time; a frame on which that hand is not in the pose, also
\* one that shows only the other hand, clears that hand's hold start; two
\* results for the same hand are at least the cooldown apart.
C33_PalmHeld ==
    /\ aEvent = "CONTROL_LEFT" =>
          /\ aLeftSince # None /\ aNow - aLeftSince >= PalmHoldTime
          /\ aPrevLeft # None => aNow - aPrevLeft >= PalmCooldown
    /\ aEvent = "CONTROL_RIGHT" =>
          /\ aRightSince # None /\ aNow - aRightSince >= PalmHoldTime
          /\ aPrevRight # None => aNow - aPrevRight >= PalmCooldown
    /\ ~PalmSeen(aResults, "left") => left_palm_up_start = None
    /\ ~PalmSeen(aResults, "right") => right_palm_up_start = None

\* C40: every trigger branch that update executes on a frame (hold start
\* cleared, last trigger time set) has its event returned for that frame;
\* when both hands complete their hold on one frame neither event is lost.
C40_NoTriggerLost ==
    \A e \in aTriggered : aEvent = e

\* C34: on the first frame at which both hands have been in the stop pose on
\* every update for at least stop_hold_time, update returns STOP (RESUME does
\* not replace it in the same call); STOP is returned only on a frame with
\* exactly two hands, in the pose for at least stop_hold_time.
C34_StopAfterHold ==
    /\ tFirst => tEvent = "STOP"
    /\ tEvent = "STOP" =>
          /\ Len(tFrame.hands) = 2 /\ StopPoseHolds(tFrame)
          /\ tSince # None /\ tNow - tSince >= StopHoldTime

\* STOP on a frame with a Left and a Right hand whose arc and distance tests
\* would pass, after the cooldown of an earlier RESUME.
C34_Witness ==
    /\ tEvent = "STOP" /\ tFirst
    /\ tFrame.larc /\ tFrame.rarc /\ tFrame.conn
    /\ tFrame.hands[1].label # tFrame.hands[2].label
    /\ tPrevResume # None

\* C35: two RESUME results are at least resume_cooldown apart, and after a
\* call that returns STOP or RESUME both position buffers are empty.
C35_ResumeCooldownAndBuffers ==
    /\ (tEvent = "RESUME" /\ tPrevResume # None) => tNow - tPrevResume >= ResumeCooldown
    /\ tEvent \in {"STOP", "RESUME"} =>
          left_hand_positions = <<>> /\ right_hand_positions = <<>>

\* The step in which the handler of p, its connection open, takes a message
\* that breaks the protocol: a first message that is not a JOIN object with
\* a session_id, or later text that is not JSON or JSON that is not an object.
TakesViolation(p) ==
    /\ inbox[p] # <<>>
    /\ inbox'[p] = Tail(inbox[p])
    /\ sockOpen[p]
    /\ \/ pc[p] = "new" /\ (Head(inbox[p]).kind # "JOIN" \/ Head(inbox[p]).sid = NoSession)
       \/ pc[p] = "loop" /\ Head(inbox[p]).kind \in {"MALFORMED", "NONOBJ"}

\* C36: a protocol violation by one peer is answered with an ERROR frame to
\* that peer, and no other peer is removed from the session table,
\* disconnected or sent a frame.
C36_ViolationIsolated ==
    [][\A p \in Peers :
          TakesViolation(p) =>
              /\ \E t \in {"ERROR_JOIN", "ERROR_JSON"} :
                     out'[p] = Append(out[p], [type |-> t, id |-> NoMsg])
              /\ \A q \in Peers \ {p} :
                     /\ out'[q] = out[q]
                     /\ sockOpen'[q] = sockOpen[q]
                     /\ pc'[q] = pc[q]
                     /\ \A k \in DOMAIN SESSIONS :
                            q \in SESSIONS[k] => k \in DOMAIN SESSIONS' /\ q \in SESSIONS'[k]]_vars

\* A connection is a member of at most one session set, the one of its
\* first JOIN.
OneSessionPerPeer ==
    \A q \in Peers : \A k \in DOMAIN SESSIONS :
        q \in SESSIONS[k] => k = session_id[q]

\* The step in which the receive loop takes a later JOIN leaves the session
\* table and the peer's session as they are and begins the broadcast to the
\* peer's original session.
LaterJoinForwarded ==
    \A p \in Peers :
        LoopTakes(p, "JOIN") =>
            /\ SESSIONS' = SESSIONS
            /\ session_id' = session_id
            /\ ~crashed'[p]
            /\ LET others == SESSIONS[session_id[p]] \ {p}
                   fwd == [type |-> "FWD", id |-> Head(inbox[p]).id]
               IN  IF others = {} THEN out' = out /\ pc'[p] = "loop"
                   ELSE /\ pc'[p] = "bcast"
                        /\ \E q \in others :
                               out' = IF sockOpen[q] THEN [out EXCEPT ![q] = Append(@, fwd)]
                                      ELSE out

\* C37: a connection is a member of at most one session set at any time, the
\* one of its first JOIN; a later JOIN of a joined peer does not change the
\* session table and is forwarded to the other peers of the original
\* session, never to a peer of another session.
C37_MembershipFixed ==
    /\ []OneSessionPerPeer
    /\ [][LaterJoinForwarded]_vars
    /\ [](\A m \in MsgIds : \A q \in Peers :
             (mInfo[m].kind = "JOIN" /\ Forwards(q, m) > 0) =>
                 session_id[q] = session_id[m[1]] /\ q # m[1])

\* A peer that joined one session sent a JOIN for the other; it was handled
\* and forwarded once to a live peer of the original session, and the
\* sender is a member of the original session alone.
C37_Witness ==
    \E p \in Peers :
        /\ mInfo[<<p, 2>>].kind = "JOIN" /\ mInfo[<<p, 2>>].state = "done"
        /\ mInfo[<<p, 2>>].sid \notin {NoSession, session_id[p]}
        /\ session_id[p] \in DOMAIN SESSIONS /\ p \in SESSIONS[session_id[p]]
        /\ mInfo[<<p, 2>>].sid \notin DOMAIN SESSIONS
        /\ \E q \in Peers \ {p} : sockOpen[q] /\ Forwards(q, <<p, 2>>) = 1

\* C38: a broadcast suspended in a send is not disturbed by a join or a
\* leave of its session: the broadcast ends without an error, so the sender's
\* handler is not terminated, and every peer that is a live member of the
\* session from the start to the end of the handling gets the message.
C38_BroadcastUndisturbed ==
    /\ [][\A p \in Peers : (pc[p] = "bcast" /\ sockOpen[p]) => ~crashed'[p]]_vars
    /\ [](\A m \in MsgIds :
             (mInfo[m].state = "done" /\ mInfo[m].joined /\ mInfo[m].kind \in {"JOIN", "DATA"})
                 => \A q \in mInfo[m].live : Forwards(q, m) >= 1)

\* C39: under every interleaving of the connection thread with a sender
\* thread that handles a failed send, whenever connected is true the stored
\* control and interrupt sockets are the sockets of the most recently
\* accepted connection and neither has been closed.
C39_ConnectedSocketsOpen ==
    thr_connected =>
        /\ thr_ccontrol = accepted /\ thr_cinterrupt = accepted
        /\ accepted \notin ctrlClosed /\ accepted \notin intrClosed

====
